---- MODULE Spec2Model ----
(***************************************************************************)
(* State-machine model of three stress-ng stressors and the harness        *)
(* pattern they share: stress-dfp.c (decimal floating point, with the      *)
(* double-computation verification), stress-prime.c (SIGALRM handler with  *)
(* a siglongjmp escape) and stress-ipsec-mb.c (feature-gated crypto        *)
(* workloads).  Each stressor has its own specification (SpecDfp,          *)
(* SpecPrime, SpecIpsec); SpecAll runs any one of them.                    *)
(*                                                                         *)
(* Abstractions.  A decimal value is a ValBits-wide bit pattern and the    *)
(* decimal operations are total deterministic functions on patterns        *)
(* (modular add and multiply, truncating divide, all-ones for x/0).  The   *)
(* clock advances by one tick per executed inner-loop iteration.  The      *)
(* element count and the loop count of the source are scaled down.         *)
(***************************************************************************)
EXTENDS Integers, Sequences, FiniteSets, TLC

VARIABLES
    \* ---- harness state shared by the stressors
    pc,             \* position of the worker in the stressor function
    proc_state,     \* last state given to stress_set_proc_state
    continue_flag,  \* the process-wide "continue" flag
    counter,        \* the bogo-op counter of args
    max_ops,        \* the op budget (--*-ops N)
    now,            \* the clock read by stress_time_now
    exit_status,    \* value returned by the stressor, "NONE" until it returns
    metrics,        \* what stress_metrics_set was given, in call order
    fail_log,       \* what pr_fail was given, in call order
    \* ---- stress-dfp.c
    dfp_data,       \* dfp_data[i][field]: the mapped array of elements
    funcs,          \* duration and ops of stress_dfp_funcs[]
    fp_method,      \* the selected method (setting)
    verify,         \* OPT_FLAGS_VERIFY
    method,         \* argument of the active stress_dfp_call_method
    in_all,         \* stress_dfp_all is active
    all_i,          \* loop variable of stress_dfp_all
    idx,            \* slot argument of the active variant function
    loop_i,         \* loop variable of the active variant function
    t1,             \* start time taken by the active variant function
    dt,             \* value returned by the last variant function
    cmp_i,          \* loop variable of the comparison loop
    ret,            \* value returned by the last stress_dfp_call_method
    rc,             \* local rc of stress_dfp
    mapped,         \* the dfp_data mapping exists
    \* ---- environment and history of the dfp run
    faults,         \* number of injected miscomputations
    flips,          \* bit flips injected in the active call: <<element, bit>>
    flag_at_ret1,   \* continue flag when the slot-1 pass of the active call returned
    compared,       \* number of elements compared by the active call
    fails_at_entry, \* Len(fail_log) when the active call was entered
    all_log,        \* indices dispatched by the active "all" invocation
    all_done,       \* the last "all" invocation that returned: its all_log, its
                    \* all_stop and whether a sub-call failed; done is FALSE before
    all_stop,       \* the stop condition held at some step of the active "all" invocation
    \* ---- stress-prime.c
    count,          \* static count of stress_prime_alarm_handler
    jumped,         \* static jumped
    jmpbuf_set,     \* sigsetjmp has saved the execution point in jmpbuf
    handler_set,    \* stress_prime_alarm_handler is the SIGALRM handler
    prime_method,   \* the selected method (setting)
    duration,       \* local duration of stress_prime
    digits,         \* local digits
    start,          \* mpz start
    value,          \* mpz value
    factorial,      \* mpz factorial
    t,              \* local t: the time taken before mpz_nextprime
    ops,            \* local ops, read from the bogo counter in the finish section
    mpz_state,      \* "none", "live" (after mpz_inits) or "cleared" (after mpz_clears)
    summaries,      \* what the pr_inf of the finish section was given, in call order
    \* ---- environment and history of the prime run
    deliveries,     \* number of SIGALRM deliveries
    escapes,        \* number of siglongjmp performed
    first_at,       \* <<pc, calls_completed>> at the first delivery to the handler
    escaped_at,     \* <<pc, calls_completed>> at the first siglongjmp
    calls_completed,\* number of mpz_nextprime calls that returned
    dur_completed,  \* time spent in the mpz_nextprime calls that returned
    \* ---- stress-ipsec-mb.c
    supported,      \* mb_features[i].supported
    istats,         \* mb_features[i].stats
    features,       \* the probed feature bits
    ipsec_mb_feature, \* the pinned feature index, -1 when none is requested
    ipsec_mb_method,  \* the selected method (setting)
    ipsec_mb_jobs,  \* jobs per round (setting)
    mb_mgr,         \* "NULL", "ALLOCATED" or "FREED"
    mgr_arch,       \* the feature whose init_func last set up the manager, -1 if none
    stack,          \* active calls of stress_ipsec_call_func and stress_ipsec_all
    main_i,         \* loop variable of the loops of stress_ipsec_mb
    alloc_fails,    \* number of output-buffer allocations that have failed
    \* ---- history of the ipsec-mb run
    inited,         \* the entries of mb_features[] whose init_func has been called
    ran,            \* the entries under whose set-up a workload function has run
    pass_runs,      \* per entry, the calls of the selected function in this pass
    ops_under,      \* per entry, the ops counted by workloads run under its set-up
    \* ---- the sibling workers of the run
    arrived,        \* number of sibling workers that have called the start barrier
    \* ---- the option setters
    settings,       \* the stored selections, -1 where none is stored
    opt_call,       \* <<setter, name>> of the last call of an option setter
    opt_ret,        \* the value that call returned
    \* ---- one call of a crypto workload of stress-ipsec-mb.c
    jobs,           \* the number of jobs the call is asked to run
    job_name,       \* the name of the workload
    job_j,          \* the loop variable j, also the number of jobs submitted
    jobs_done,      \* the local jobs_done
    encoded,        \* the output buffer of the call: "none", "live" or "freed"
    mb_queue,       \* the jobs the library holds, oldest first
    err_log,        \* the pr_err messages
    returned,       \* (history) how often the library has handed back each job
    job_status,     \* (history) the status each job was handed back with
    \* ---- the resources of a run
    resources       \* (history) per resource, how often it was acquired and released

hvars == <<pc, proc_state, continue_flag, counter, max_ops, now, exit_status, metrics, fail_log>>
dvars == <<dfp_data, funcs, fp_method, verify, method, in_all, all_i, idx, loop_i,
           t1, dt, cmp_i, ret, rc, mapped>>
dhist == <<faults, flips, flag_at_ret1, compared, fails_at_entry, all_log, all_done,
           all_stop>>
pvars == <<count, jumped, jmpbuf_set, handler_set, prime_method, duration, digits, start,
           value, factorial, t, ops, mpz_state, summaries>>
phist == <<deliveries, escapes, first_at, escaped_at, calls_completed, dur_completed>>
ivars == <<supported, istats, features, ipsec_mb_feature, ipsec_mb_method, ipsec_mb_jobs,
           mb_mgr, mgr_arch, stack, main_i, alloc_fails>>
ihist == <<inited, ran, pass_runs, ops_under>>
ovars == <<settings, opt_call, opt_ret>>
jvars == <<jobs, job_name, job_j, jobs_done, encoded, mb_queue, err_log, returned, job_status>>

----------------------------------------------------------------------------
\* Bounds of the model
DFP_ELEMENTS == 2
LOOPS_PER_CALL == 2
ValBits == 2
MaxSeed == 1
MaxOps == 2
MaxFaults == 1
MaxTicks == 1
MaxAlarms == 3
MaxSiblings == 1

\* Program constants
STRESS_DFP_TYPE_DECIMAL32 == 0
STRESS_DFP_TYPE_DECIMAL64 == 1
STRESS_DFP_TYPE_DECIMAL128 == 2
STRESS_DFP_TYPE_ALL == 3
STRESS_PRIME_METHOD_FACTORIAL == 0
STRESS_PRIME_METHOD_INC == 1
STRESS_PRIME_METHOD_PWR2 == 2
STRESS_PRIME_METHOD_PWR10 == 3

RECURSIVE Pow2(_)
Pow2(n) == IF n = 0 THEN 1 ELSE 2 * Pow2(n - 1)

ValMod == Pow2(ValBits)
Vals == 0 .. (ValMod - 1)
Elems == 0 .. (DFP_ELEMENTS - 1)
Fields == {"d32", "d64", "d128"}

\* the operations of the variant loops on bit patterns
DfpAdd(a, b) == (a + b) % ValMod
DfpMul(a, b) == (a * b) % ValMod
DfpDiv(a, b) == IF b = 0 THEN ValMod - 1 ELSE a \div b
DfpNeg(a) == (ValMod - a) % ValMod

\* one bit of a stored pattern inverted (a transient miscomputation)
FlipBit(v, b) == IF (v \div Pow2(b)) % 2 = 1 THEN v - Pow2(b) ELSE v + Pow2(b)

\* stress_mwc32: the n-th draw of the generator started from seed s
RECURSIVE stress_mwc32(_, _)
stress_mwc32(s, n) == IF n = 0 THEN s % ValMod ELSE (5 * stress_mwc32(s, n - 1) + 3) % ValMod

stress_dfp_funcs == <<
    [name |-> "all",      op |-> "all", field |-> "all",  dfp_type |-> STRESS_DFP_TYPE_ALL],
    [name |-> "df32add",  op |-> "add", field |-> "d32",  dfp_type |-> STRESS_DFP_TYPE_DECIMAL32],
    [name |-> "df64add",  op |-> "add", field |-> "d64",  dfp_type |-> STRESS_DFP_TYPE_DECIMAL64],
    [name |-> "df128add", op |-> "add", field |-> "d128", dfp_type |-> STRESS_DFP_TYPE_DECIMAL128],
    [name |-> "df32mul",  op |-> "mul", field |-> "d32",  dfp_type |-> STRESS_DFP_TYPE_DECIMAL32],
    [name |-> "df64mul",  op |-> "mul", field |-> "d64",  dfp_type |-> STRESS_DFP_TYPE_DECIMAL64],
    [name |-> "df128mul", op |-> "mul", field |-> "d128", dfp_type |-> STRESS_DFP_TYPE_DECIMAL128],
    [name |-> "df32div",  op |-> "div", field |-> "d32",  dfp_type |-> STRESS_DFP_TYPE_DECIMAL32],
    [name |-> "df64div",  op |-> "div", field |-> "d64",  dfp_type |-> STRESS_DFP_TYPE_DECIMAL64],
    [name |-> "df128div", op |-> "div", field |-> "d128", dfp_type |-> STRESS_DFP_TYPE_DECIMAL128] >>

STRESS_NUM_DFP_FUNCS == Len(stress_dfp_funcs)
Methods == 0 .. (STRESS_NUM_DFP_FUNCS - 1)
DfpFunc(m) == stress_dfp_funcs[m + 1]

\* ops added to a registry entry by one timed call
OpsPerCall == DFP_ELEMENTS * LOOPS_PER_CALL
\* const int loops = LOOPS_PER_CALL >> 1
Loops == LOOPS_PER_CALL \div 2

\* stress_continue(args): the flag, and the op budget when one is set
stress_continue == continue_flag /\ (max_ops = 0 \/ counter < max_ops)

ZeroElem == [r_init |-> 0, r |-> <<0, 0>>, add |-> 0, add_rev |-> 0, mul |-> 0, mul_rev |-> 0]

\* slot idx (0 or 1) of an element
Slot(e, s) == e.r[s + 1]
SetSlot(e, s, v) == [e EXCEPT !.r[s + 1] = v]

\* lines 402-435: the inputs of element i, drawn from the generator
InitElem(i, seed) ==
    LET r1 == stress_mwc32(seed, 3 * i + 1)
        r2 == stress_mwc32(seed, 3 * i + 2)
        r3 == stress_mwc32(seed, 3 * i + 3)
        ld == (i + r1) % ValMod
        mul == (i + r3) % ValMod
    IN  [r_init |-> ld, r |-> <<ld, ld>>,
         add |-> r2, add_rev |-> DfpNeg((r2 * 124) \div 125),
         mul |-> mul, mul_rev |-> DfpDiv(ValMod - 1, mul)]

\* (mutant) an iteration that stores its result in both slots of the element
IterElem_BothSlots(op, e, s) ==
    LET v == Slot(e, s)
        w == CASE op = "add" -> DfpAdd(DfpAdd(v, e.add), e.add_rev)
               [] op = "mul" -> DfpMul(DfpMul(v, e.mul), e.mul_rev)
               [] op = "div" -> DfpDiv(DfpDiv(v, e.mul), e.mul_rev)
    IN  [e EXCEPT !.r = <<w, w>>]

\* one unrolled loop iteration of a variant on one element
IterElem(op, e, s) ==
    LET v == Slot(e, s)
    IN  CASE op = "add" -> SetSlot(e, s, DfpAdd(DfpAdd(v, e.add), e.add_rev))
          [] op = "mul" -> SetSlot(e, s, DfpMul(DfpMul(v, e.mul), e.mul_rev))
          [] op = "div" -> SetSlot(e, s, DfpDiv(DfpDiv(v, e.mul), e.mul_rev))

\* (mutant) a variant that ignores idx and always writes slot 0
PassSlot_Ignored(i) == 0

\* the slot a variant called with idx writes
PassSlot(i) == i

\* the loop condition of a variant: only the division loop polls the flag
PassCond(op) == (op = "div" => continue_flag) /\ loop_i < Loops

\* the budgets a run is given: "all" also gets one that outlasts a full cycle
Budgets(m) == IF m = 0 THEN {1, STRESS_NUM_DFP_FUNCS} ELSE 1 .. MaxOps

DfpLabels == {"dfp_mmap", "dfp_sync", "dfp_wait", "dfp_init", "dfp_call", "dfp_cm_pass0",
              "dfp_all_loop", "dfp_pass_begin", "dfp_pass_loop", "dfp_pass_end",
              "dfp_cm_acc0", "dfp_cm_acc1", "dfp_cm_flag", "dfp_cm_cmp", "dfp_cm_ret",
              "dfp_while", "dfp_metrics", "dfp_deinit", "dfp_done"}

\* the resources a run acquires at start-up or per call: the manager of the crypto
\* library, the mapping of the dfp data and the output buffer of a workload call
ResourceNames == {"mb_mgr", "dfp_data", "encoded"}

NoResources == [x \in ResourceNames |-> [acquired |-> 0, released |-> 0]]

\* a successful alloc_mb_mgr, stress_mmap_populate or stress_alloc_aligned
Acquire(x) == [resources EXCEPT ![x].acquired = @ + 1]

\* (mutant) a return path that forgets the release
Release_Leak(x) == resources

\* free_mb_mgr, munmap or free
Release(x) == [resources EXCEPT ![x].released = @ + 1]

\* the variables of a workload call while none is looked at on its own
IdleJobs ==
    /\ jobs = 0
    /\ job_name = ""
    /\ job_j = 0
    /\ jobs_done = 0
    /\ encoded = "none"
    /\ mb_queue = <<>>
    /\ err_log = <<>>
    /\ returned = <<>>
    /\ job_status = <<>>

\* the variables of stress-prime.c while another stressor runs
IdlePrime ==
    /\ count = 0
    /\ jumped = FALSE
    /\ jmpbuf_set = FALSE
    /\ handler_set = FALSE
    /\ prime_method = 0
    /\ duration = 0
    /\ digits = 1
    /\ start = 0
    /\ value = 0
    /\ factorial = 0
    /\ t = 0
    /\ ops = 0
    /\ mpz_state = "none"
    /\ summaries = <<>>
    /\ deliveries = 0
    /\ escapes = 0
    /\ first_at = <<>>
    /\ escaped_at = <<>>
    /\ calls_completed = 0
    /\ dur_completed = 0

\* the variables of stress-ipsec-mb.c while another stressor runs
IdleIpsec ==
    /\ supported = <<>>
    /\ istats = <<>>
    /\ features = {}
    /\ ipsec_mb_feature = 0 - 1
    /\ ipsec_mb_method = 0
    /\ ipsec_mb_jobs = 0
    /\ mb_mgr = "NULL"
    /\ mgr_arch = 0 - 1
    /\ stack = <<>>
    /\ main_i = 0
    /\ alloc_fails = 0
    /\ inited = {}
    /\ ran = {}
    /\ pass_runs = <<>>
    /\ ops_under = <<>>

\* the variables of stress-dfp.c while another stressor runs
IdleDfp ==
    /\ dfp_data = [i \in Elems |-> [f \in Fields |-> ZeroElem]]
    /\ funcs = [m \in Methods |-> [duration |-> 0, ops |-> 0]]
    /\ fp_method = 0
    /\ verify = FALSE
    /\ method = 0
    /\ in_all = FALSE
    /\ all_i = 0
    /\ idx = 0
    /\ loop_i = 0
    /\ t1 = 0
    /\ dt = 0
    /\ cmp_i = 0
    /\ ret = "EXIT_SUCCESS"
    /\ rc = "EXIT_SUCCESS"
    /\ mapped = FALSE
    /\ faults = 0
    /\ flips = <<>>
    /\ flag_at_ret1 = TRUE
    /\ compared = 0
    /\ fails_at_entry = 0

\* the history of the active "all" invocation, kept for dfp and ipsec-mb
InitAllHist ==
    /\ all_log = <<>>
    /\ all_done = [done |-> FALSE, log |-> <<>>, stop |-> FALSE, failed |-> FALSE]
    /\ all_stop = FALSE

InitHarness ==
    /\ proc_state = "INIT"
    /\ continue_flag = TRUE
    /\ counter = 0
    /\ now = 0
    /\ exit_status = "NONE"
    /\ metrics = <<>>
    /\ fail_log = <<>>
    /\ arrived = 0
    /\ settings = [prime_method |-> 0 - 1, ipsec_mb_method |-> 0 - 1,
                   ipsec_mb_feature |-> 0 - 1]
    /\ opt_call = <<>>
    /\ opt_ret = 0
    /\ IdleJobs
    /\ resources = NoResources

\* entry of stress_dfp (line 374), the method and the verify option already set
InitDfp ==
    /\ InitHarness
    /\ pc = "dfp_mmap"
    /\ dfp_data = [i \in Elems |-> [f \in Fields |-> ZeroElem]]
    /\ funcs = [m \in Methods |-> [duration |-> 0, ops |-> 0]]
    /\ fp_method \in Methods
    /\ verify \in BOOLEAN
    /\ max_ops \in Budgets(fp_method)
    /\ method = 0
    /\ in_all = FALSE
    /\ all_i = 0
    /\ idx = 0
    /\ loop_i = 0
    /\ t1 = 0
    /\ dt = 0
    /\ cmp_i = 0
    /\ ret = "EXIT_SUCCESS"
    /\ rc = "EXIT_SUCCESS"
    /\ mapped = FALSE
    /\ faults = 0
    /\ flips = <<>>
    /\ flag_at_ret1 = TRUE
    /\ compared = 0
    /\ fails_at_entry = 0
    /\ InitAllHist
    /\ IdlePrime
    /\ IdleIpsec

----------------------------------------------------------------------------
\* stress-dfp.c

\* history kept for the call of stress_dfp_call_method that is being entered
EnterCall ==
    /\ flips' = <<>>
    /\ flag_at_ret1' = TRUE
    /\ compared' = 0
    /\ fails_at_entry' = Len(fail_log)

CallHist == <<flips, flag_at_ret1, compared, fails_at_entry>>
AllHist == <<all_log, all_done, all_stop>>

\* lines 384-392: the mapping of the element array, which may fail
DfpMmap ==
    /\ pc = "dfp_mmap"
    /\ \/ /\ mapped' = TRUE
          /\ resources' = Acquire("dfp_data")
          /\ pc' = "dfp_sync"
          /\ UNCHANGED exit_status
       \/ /\ exit_status' = "EXIT_NO_RESOURCE"
          /\ pc' = "dfp_done"
          /\ UNCHANGED <<mapped, resources>>
    /\ UNCHANGED <<proc_state, continue_flag, counter, max_ops, now, metrics, fail_log>>
    /\ UNCHANGED <<dfp_data, funcs, fp_method, verify, method, in_all, all_i, idx, loop_i,
                   t1, dt, cmp_i, ret, rc>>
    /\ UNCHANGED dhist
    /\ UNCHANGED <<pvars, phist, ivars, ihist, arrived, ovars, jvars>>

\* line 398: the worker announces that it waits for the start barrier
DfpSyncWait ==
    /\ pc = "dfp_sync"
    /\ proc_state' = "SYNC_WAIT"
    /\ pc' = "dfp_wait"
    /\ UNCHANGED <<continue_flag, counter, max_ops, now, exit_status, metrics, fail_log>>
    /\ UNCHANGED <<dvars, dhist>>
    /\ UNCHANGED <<pvars, phist, ivars, ihist, arrived, ovars, jvars, resources>>

\* stress_sync_start_wait(args): the call blocks until every sibling worker has
\* called it; the number of siblings at the barrier when it returns
stress_sync_start_wait == MaxSiblings

\* lines 399-400: the barrier releases the worker
DfpSyncRelease ==
    /\ pc = "dfp_wait"
    /\ arrived' = stress_sync_start_wait
    /\ proc_state' = "RUN"
    /\ pc' = "dfp_init"
    /\ UNCHANGED <<continue_flag, counter, max_ops, now, exit_status, metrics, fail_log>>
    /\ UNCHANGED <<dvars, dhist>>
    /\ UNCHANGED <<pvars, phist, ivars, ihist, ovars, jvars, resources>>

\* lines 402-435: only the d32 inputs are set, the other fields stay zero
DfpInitData ==
    /\ pc = "dfp_init"
    /\ \E seed \in 0 .. MaxSeed :
          dfp_data' = [i \in Elems |-> [dfp_data[i] EXCEPT !["d32"] = InitElem(i, seed)]]
    /\ pc' = "dfp_call"
    /\ UNCHANGED <<proc_state, continue_flag, counter, max_ops, now, exit_status, metrics,
                   fail_log>>
    /\ UNCHANGED <<funcs, fp_method, verify, method, in_all, all_i, idx, loop_i,
                   t1, dt, cmp_i, ret, rc, mapped>>
    /\ UNCHANGED dhist
    /\ UNCHANGED <<pvars, phist, ivars, ihist, arrived, ovars, jvars, resources>>

\* line 438: stress_dfp calls stress_dfp_call_method(fp_method)
DfpCall ==
    /\ pc = "dfp_call"
    /\ method' = fp_method
    /\ EnterCall
    /\ pc' = "dfp_cm_pass0"
    /\ UNCHANGED <<proc_state, continue_flag, counter, max_ops, now, exit_status, metrics,
                   fail_log>>
    /\ UNCHANGED <<dfp_data, funcs, fp_method, verify, in_all, all_i, idx, loop_i,
                   t1, dt, cmp_i, ret, rc, mapped>>
    /\ UNCHANGED <<faults, AllHist>>
    /\ UNCHANGED <<pvars, phist, ivars, ihist, arrived, ovars, jvars, resources>>

\* line 308: the slot-0 call of the entry's function; for entry 0 this enters
\* stress_dfp_all (lines 363-367)
DfpPass0 ==
    /\ pc = "dfp_cm_pass0"
    /\ IF method = 0
       THEN /\ in_all' = TRUE
            /\ all_i' = 1
            /\ all_log' = <<>>
            /\ all_stop' = ~stress_continue
            /\ pc' = "dfp_all_loop"
            /\ UNCHANGED <<idx, all_done>>
       ELSE /\ idx' = 0
            /\ pc' = "dfp_pass_begin"
            /\ UNCHANGED <<in_all, all_i, AllHist>>
    /\ UNCHANGED <<proc_state, continue_flag, counter, max_ops, now, exit_status, metrics,
                   fail_log>>
    /\ UNCHANGED <<dfp_data, funcs, fp_method, verify, method, loop_i,
                   t1, dt, cmp_i, ret, rc, mapped>>
    /\ UNCHANGED <<faults, CallHist>>
    /\ UNCHANGED <<pvars, phist, ivars, ihist, arrived, ovars, jvars, resources>>

\* (mutant) the loop of stress_dfp_all stops one entry short
DfpAllCond_Short(i) == i < STRESS_NUM_DFP_FUNCS - 1

\* line 367: the loop condition of stress_dfp_all; it does not test the stop condition
DfpAllCond(i) == i < STRESS_NUM_DFP_FUNCS

\* lines 367-371: the loop of stress_dfp_all
DfpAllLoop ==
    /\ pc = "dfp_all_loop"
    /\ IF DfpAllCond(all_i)
       THEN /\ method' = all_i
            /\ all_log' = Append(all_log, all_i)
            /\ all_stop' = (all_stop \/ ~stress_continue)
            /\ EnterCall
            /\ pc' = "dfp_cm_pass0"
            /\ UNCHANGED <<in_all, dt, all_done>>
       ELSE /\ dt' = 0
            /\ method' = 0
            /\ in_all' = FALSE
            /\ all_stop' = (all_stop \/ ~stress_continue)
            /\ all_done' = [done |-> TRUE, log |-> all_log, stop |-> all_stop',
                            failed |-> FALSE]
            /\ pc' = "dfp_cm_acc0"
            /\ UNCHANGED <<all_log, CallHist>>
    /\ UNCHANGED <<proc_state, continue_flag, counter, max_ops, now, exit_status, metrics,
                   fail_log>>
    /\ UNCHANGED <<dfp_data, funcs, fp_method, verify, all_i, idx, loop_i,
                   t1, cmp_i, ret, rc, mapped>>
    /\ UNCHANGED faults
    /\ UNCHANGED <<pvars, phist, ivars, ihist, arrived, ovars, jvars, resources>>

\* lines 106-110: the slot is reset to r_init, then the timer starts
DfpPassBegin ==
    /\ pc = "dfp_pass_begin"
    /\ LET f == DfpFunc(method).field
           s == PassSlot(idx)
       IN  dfp_data' = [i \in Elems |->
                          [dfp_data[i] EXCEPT ![f] = SetSlot(@, s, @.r_init)]]
    /\ t1' = now
    /\ loop_i' = 0
    /\ pc' = "dfp_pass_loop"
    /\ UNCHANGED <<proc_state, continue_flag, counter, max_ops, now, exit_status, metrics,
                   fail_log>>
    /\ UNCHANGED <<funcs, fp_method, verify, method, in_all, all_i, idx,
                   dt, cmp_i, ret, rc, mapped>>
    /\ UNCHANGED dhist
    /\ UNCHANGED <<pvars, phist, ivars, ihist, arrived, ovars, jvars, resources>>

\* lines 111-128, 151-168, 191-208: one iteration over all elements, or the exit
DfpPassLoop ==
    /\ pc = "dfp_pass_loop"
    /\ LET f == DfpFunc(method).field
           op == DfpFunc(method).op
           s == PassSlot(idx)
       IN  IF PassCond(op)
           THEN /\ dfp_data' = [i \in Elems |->
                                  [dfp_data[i] EXCEPT ![f] = IterElem(op, @, s)]]
                /\ loop_i' = loop_i + 1
                /\ now' = now + 1
                /\ pc' = "dfp_pass_loop"
           ELSE /\ pc' = "dfp_pass_end"
                /\ UNCHANGED <<dfp_data, loop_i, now>>
    /\ UNCHANGED <<proc_state, continue_flag, counter, max_ops, exit_status, metrics,
                   fail_log>>
    /\ UNCHANGED <<funcs, fp_method, verify, method, in_all, all_i, idx,
                   t1, dt, cmp_i, ret, rc, mapped>>
    /\ UNCHANGED dhist
    /\ UNCHANGED <<pvars, phist, ivars, ihist, arrived, ovars, jvars, resources>>

\* lines 129-133: the timer stops, one bogo op is counted, t2 - t1 is returned
DfpPassEnd ==
    /\ pc = "dfp_pass_end"
    /\ counter' = counter + 1
    /\ dt' = now - t1
    /\ IF idx = 0
       THEN /\ pc' = "dfp_cm_acc0"
            /\ UNCHANGED flag_at_ret1
       ELSE /\ pc' = "dfp_cm_acc1"
            /\ flag_at_ret1' = continue_flag
    /\ UNCHANGED <<proc_state, continue_flag, max_ops, now, exit_status, metrics, fail_log>>
    /\ UNCHANGED <<dfp_data, funcs, fp_method, verify, method, in_all, all_i, idx, loop_i,
                   t1, cmp_i, ret, rc, mapped>>
    /\ UNCHANGED <<faults, flips, compared, fails_at_entry, AllHist>>
    /\ UNCHANGED <<pvars, phist, ivars, ihist, arrived, ovars, jvars, resources>>

\* (mutant) a dispatcher that runs the second pass whatever the verify option says
SecondPass_Unconditional == (method > 0) /\ (method < STRESS_NUM_DFP_FUNCS)

\* line 312: the condition under which the second pass is run
SecondPass == (method > 0) /\ (method < STRESS_NUM_DFP_FUNCS /\ verify)

\* lines 309-312: the slot-0 result is accumulated whatever its sign; then the
\* second pass is started or the call returns (line 355)
DfpAcc0 ==
    /\ pc = "dfp_cm_acc0"
    /\ funcs' = [funcs EXCEPT ![method].duration = @ + dt, ![method].ops = @ + OpsPerCall]
    /\ IF SecondPass
       THEN /\ idx' = 1
            /\ pc' = "dfp_pass_begin"
            /\ UNCHANGED ret
       ELSE /\ ret' = "EXIT_SUCCESS"
            /\ pc' = "dfp_cm_ret"
            /\ UNCHANGED idx
    /\ UNCHANGED <<proc_state, continue_flag, counter, max_ops, now, exit_status, metrics,
                   fail_log>>
    /\ UNCHANGED <<dfp_data, fp_method, verify, method, in_all, all_i, loop_i,
                   t1, dt, cmp_i, rc, mapped>>
    /\ UNCHANGED dhist
    /\ UNCHANGED <<pvars, phist, ivars, ihist, arrived, ovars, jvars, resources>>

\* lines 318-322: the slot-1 result, refused when negative, else accumulated
DfpAcc1 ==
    /\ pc = "dfp_cm_acc1"
    /\ IF dt < 0
       THEN /\ ret' = "EXIT_FAILURE"
            /\ pc' = "dfp_cm_ret"
            /\ UNCHANGED funcs
       ELSE /\ funcs' = [funcs EXCEPT ![method].duration = @ + dt,
                                      ![method].ops = @ + OpsPerCall]
            /\ pc' = "dfp_cm_flag"
            /\ UNCHANGED ret
    /\ UNCHANGED <<proc_state, continue_flag, counter, max_ops, now, exit_status, metrics,
                   fail_log>>
    /\ UNCHANGED <<dfp_data, fp_method, verify, method, in_all, all_i, idx, loop_i,
                   t1, dt, cmp_i, rc, mapped>>
    /\ UNCHANGED dhist
    /\ UNCHANGED <<pvars, phist, ivars, ihist, arrived, ovars, jvars, resources>>

\* (mutant) the comparison is run whatever the flag says
DfpFlagCheck_Unchecked ==
    /\ pc = "dfp_cm_flag"
    /\ cmp_i' = 0
    /\ pc' = "dfp_cm_cmp"
    /\ UNCHANGED <<ret, proc_state, continue_flag, counter, max_ops, now, exit_status, metrics,
                   fail_log>>
    /\ UNCHANGED <<dfp_data, funcs, fp_method, verify, method, in_all, all_i, idx, loop_i,
                   t1, dt, rc, mapped>>
    /\ UNCHANGED dhist
    /\ UNCHANGED <<pvars, phist, ivars, ihist, arrived, ovars, jvars, resources>>

\* lines 329-332: no comparison once the flag is cleared
DfpFlagCheck ==
    /\ pc = "dfp_cm_flag"
    /\ IF ~continue_flag
       THEN /\ ret' = "EXIT_SUCCESS"
            /\ pc' = "dfp_cm_ret"
            /\ UNCHANGED cmp_i
       ELSE /\ cmp_i' = 0
            /\ pc' = "dfp_cm_cmp"
            /\ UNCHANGED ret
    /\ UNCHANGED <<proc_state, continue_flag, counter, max_ops, now, exit_status, metrics,
                   fail_log>>
    /\ UNCHANGED <<dfp_data, funcs, fp_method, verify, method, in_all, all_i, idx, loop_i,
                   t1, dt, rc, mapped>>
    /\ UNCHANGED dhist
    /\ UNCHANGED <<pvars, phist, ivars, ihist, arrived, ovars, jvars, resources>>

\* (mutant) a switch with no case at all
Comparable_None(ty) == FALSE

\* line 336: the element types the switch has a case for
Comparable(ty) == ty = STRESS_DFP_TYPE_DECIMAL32

\* (mutant) a comparison loop that reports a mismatch and goes on to the next element
DfpCompare_NoStop ==
    /\ pc = "dfp_cm_cmp"
    /\ LET e == dfp_data[cmp_i]["d32"]
       IN  IF cmp_i < DFP_ELEMENTS
           THEN IF Comparable(DfpFunc(method).dfp_type)
                THEN /\ compared' = compared + 1
                     /\ cmp_i' = cmp_i + 1
                     /\ pc' = "dfp_cm_cmp"
                     /\ IF Slot(e, 0) # Slot(e, 1)
                        THEN /\ fail_log' = Append(fail_log,
                                    [method |-> method, element |-> cmp_i,
                                     got |-> Slot(e, 0), expected |-> Slot(e, 1)])
                             /\ ret' = "EXIT_FAILURE"
                        ELSE UNCHANGED <<fail_log, ret>>
                ELSE /\ ret' = "EXIT_SUCCESS"
                     /\ pc' = "dfp_cm_ret"
                     /\ UNCHANGED <<fail_log, cmp_i, compared>>
           ELSE /\ pc' = "dfp_cm_ret"
                /\ UNCHANGED <<fail_log, cmp_i, compared, ret>>
    /\ UNCHANGED <<proc_state, continue_flag, counter, max_ops, now, exit_status, metrics>>
    /\ UNCHANGED <<dfp_data, funcs, fp_method, verify, method, in_all, all_i, idx, loop_i,
                   t1, dt, rc, mapped>>
    /\ UNCHANGED <<faults, flips, flag_at_ret1, fails_at_entry, AllHist>>
    /\ UNCHANGED <<pvars, phist, ivars, ihist, arrived, ovars, jvars, resources>>

\* (mutant) a switch with a case for every element type, each comparing its own field
DfpCompare_AnyType ==
    /\ pc = "dfp_cm_cmp"
    /\ LET e == dfp_data[cmp_i][DfpFunc(method).field]
       IN  IF cmp_i < DFP_ELEMENTS
           THEN IF TRUE
                THEN /\ compared' = compared + 1
                     /\ IF Slot(e, 0) # Slot(e, 1)
                        THEN /\ fail_log' = Append(fail_log,
                                    [method |-> method, element |-> cmp_i,
                                     got |-> Slot(e, 0), expected |-> Slot(e, 1)])
                             /\ ret' = "EXIT_FAILURE"
                             /\ pc' = "dfp_cm_ret"
                             /\ UNCHANGED cmp_i
                        ELSE /\ cmp_i' = cmp_i + 1
                             /\ pc' = "dfp_cm_cmp"
                             /\ UNCHANGED <<fail_log, ret>>
                ELSE /\ ret' = "EXIT_SUCCESS"
                     /\ pc' = "dfp_cm_ret"
                     /\ UNCHANGED <<fail_log, cmp_i, compared>>
           ELSE /\ ret' = "EXIT_SUCCESS"
                /\ pc' = "dfp_cm_ret"
                /\ UNCHANGED <<fail_log, cmp_i, compared>>
    /\ UNCHANGED <<proc_state, continue_flag, counter, max_ops, now, exit_status, metrics>>
    /\ UNCHANGED <<dfp_data, funcs, fp_method, verify, method, in_all, all_i, idx, loop_i,
                   t1, dt, rc, mapped>>
    /\ UNCHANGED <<faults, flips, flag_at_ret1, fails_at_entry, AllHist>>
    /\ UNCHANGED <<pvars, phist, ivars, ihist, arrived, ovars, jvars, resources>>

\* lines 332-355: one round of the comparison loop
DfpCompare ==
    /\ pc = "dfp_cm_cmp"
    /\ LET e == dfp_data[cmp_i]["d32"]
       IN  IF cmp_i < DFP_ELEMENTS
           THEN IF Comparable(DfpFunc(method).dfp_type)
                THEN /\ compared' = compared + 1
                     /\ IF Slot(e, 0) # Slot(e, 1)
                        THEN /\ fail_log' = Append(fail_log,
                                    [method |-> method, element |-> cmp_i,
                                     got |-> Slot(e, 0), expected |-> Slot(e, 1)])
                             /\ ret' = "EXIT_FAILURE"
                             /\ pc' = "dfp_cm_ret"
                             /\ UNCHANGED cmp_i
                        ELSE /\ cmp_i' = cmp_i + 1
                             /\ pc' = "dfp_cm_cmp"
                             /\ UNCHANGED <<fail_log, ret>>
                ELSE /\ ret' = "EXIT_SUCCESS"
                     /\ pc' = "dfp_cm_ret"
                     /\ UNCHANGED <<fail_log, cmp_i, compared>>
           ELSE /\ ret' = "EXIT_SUCCESS"
                /\ pc' = "dfp_cm_ret"
                /\ UNCHANGED <<fail_log, cmp_i, compared>>
    /\ UNCHANGED <<proc_state, continue_flag, counter, max_ops, now, exit_status, metrics>>
    /\ UNCHANGED <<dfp_data, funcs, fp_method, verify, method, in_all, all_i, idx, loop_i,
                   t1, dt, rc, mapped>>
    /\ UNCHANGED <<faults, flips, flag_at_ret1, fails_at_entry, AllHist>>
    /\ UNCHANGED <<pvars, phist, ivars, ihist, arrived, ovars, jvars, resources>>

\* the return of stress_dfp_call_method: into stress_dfp_all (lines 368-369) or
\* into the loop of stress_dfp (lines 438-441)
DfpReturn ==
    /\ pc = "dfp_cm_ret"
    /\ IF in_all
       THEN /\ IF ret = "EXIT_FAILURE"
               THEN /\ dt' = 0 - 1
                    /\ method' = 0
                    /\ in_all' = FALSE
                    /\ all_done' = [done |-> TRUE, log |-> all_log, failed |-> TRUE,
                                    stop |-> (all_stop \/ ~stress_continue)]
                    /\ pc' = "dfp_cm_acc0"
                    /\ UNCHANGED all_i
               ELSE /\ all_i' = all_i + 1
                    /\ pc' = "dfp_all_loop"
                    /\ UNCHANGED <<dt, method, in_all, all_done>>
            /\ all_stop' = (all_stop \/ ~stress_continue)
            /\ UNCHANGED rc
       ELSE /\ IF ret = "EXIT_FAILURE"
               THEN /\ rc' = "EXIT_FAILURE"
                    /\ pc' = "dfp_metrics"
               ELSE /\ pc' = "dfp_while"
                    /\ UNCHANGED rc
            /\ UNCHANGED <<dt, method, in_all, all_i, all_stop, all_done>>
    /\ UNCHANGED <<proc_state, continue_flag, counter, max_ops, now, exit_status, metrics,
                   fail_log>>
    /\ UNCHANGED <<dfp_data, funcs, fp_method, verify, idx, loop_i, t1, cmp_i, ret, mapped>>
    /\ UNCHANGED <<faults, CallHist, all_log>>
    /\ UNCHANGED <<pvars, phist, ivars, ihist, arrived, ovars, jvars, resources>>

\* (mutant) a loop that goes on while the stop condition holds
DfpWhile_Inverted ==
    /\ pc = "dfp_while"
    /\ pc' = IF ~stress_continue THEN "dfp_call" ELSE "dfp_metrics"
    /\ UNCHANGED <<proc_state, continue_flag, counter, max_ops, now, exit_status, metrics,
                   fail_log>>
    /\ UNCHANGED <<dvars, dhist>>
    /\ UNCHANGED <<pvars, phist, ivars, ihist, arrived, ovars, jvars, resources>>

\* line 442: while (stress_continue(args))
DfpWhile ==
    /\ pc = "dfp_while"
    /\ pc' = IF stress_continue THEN "dfp_call" ELSE "dfp_metrics"
    /\ UNCHANGED <<proc_state, continue_flag, counter, max_ops, now, exit_status, metrics,
                   fail_log>>
    /\ UNCHANGED <<dvars, dhist>>
    /\ UNCHANGED <<pvars, phist, ivars, ihist, arrived, ovars, jvars, resources>>

\* line 447: the entries a rate is emitted for
Timed(m) == funcs[m].duration > 0 /\ funcs[m].ops > 0

RECURSIVE DfpRates(_)
DfpRates(m) ==
    IF m >= STRESS_NUM_DFP_FUNCS THEN <<>>
    ELSE (IF Timed(m)
          THEN <<[index |-> m - 1, name |-> DfpFunc(m).name, ops |-> funcs[m].ops,
                  duration |-> funcs[m].duration, kind |-> "HARMONIC_MEAN"]>>
          ELSE <<>>) \o DfpRates(m + 1)

\* lines 444-455: the rates, as ops over duration, of the entries 1..N-1
DfpMetrics ==
    /\ pc = "dfp_metrics"
    /\ metrics' = metrics \o DfpRates(1)
    /\ pc' = "dfp_deinit"
    /\ UNCHANGED <<proc_state, continue_flag, counter, max_ops, now, exit_status, fail_log>>
    /\ UNCHANGED <<dvars, dhist>>
    /\ UNCHANGED <<pvars, phist, ivars, ihist, arrived, ovars, jvars, resources>>

\* lines 457-461
DfpDeinit ==
    /\ pc = "dfp_deinit"
    /\ proc_state' = "DEINIT"
    /\ mapped' = FALSE
    /\ resources' = Release("dfp_data")
    /\ exit_status' = rc
    /\ pc' = "dfp_done"
    /\ UNCHANGED <<continue_flag, counter, max_ops, now, metrics, fail_log>>
    /\ UNCHANGED <<dfp_data, funcs, fp_method, verify, method, in_all, all_i, idx, loop_i,
                   t1, dt, cmp_i, ret, rc>>
    /\ UNCHANGED dhist
    /\ UNCHANGED <<pvars, phist, ivars, ihist, arrived, ovars, jvars>>

\* the timeout signal under the harness's default handler: the flag is cleared
DfpAlarm ==
    /\ pc \in DfpLabels \ {"dfp_done"}
    /\ continue_flag
    /\ continue_flag' = FALSE
    /\ UNCHANGED <<pc, proc_state, counter, max_ops, now, exit_status, metrics, fail_log>>
    /\ UNCHANGED <<dvars, dhist>>
    /\ UNCHANGED <<pvars, phist, ivars, ihist, arrived, ovars, jvars, resources>>

\* a transient miscomputation: one bit of the slot-1 result of one element of the
\* active variant, or the same bit of the slot-1 result of every element, is
\* inverted after the second pass has returned
DfpFault ==
    /\ pc = "dfp_cm_acc1"
    /\ faults < MaxFaults
    /\ \E k \in Elems, b \in 0 .. (ValBits - 1), last \in Elems :
          /\ last = k \/ (k = 0 /\ last = DFP_ELEMENTS - 1)
          /\ dfp_data' = [i \in Elems |->
                             IF i >= k /\ i <= last
                             THEN [dfp_data[i] EXCEPT ![DfpFunc(method).field] =
                                      SetSlot(@, 1, FlipBit(Slot(@, 1), b))]
                             ELSE dfp_data[i]]
          /\ flips' = flips \o [j \in 1 .. (last - k + 1) |-> <<k + j - 1, b>>]
    /\ faults' = faults + 1
    /\ UNCHANGED hvars
    /\ UNCHANGED <<funcs, fp_method, verify, method, in_all, all_i, idx, loop_i,
                   t1, dt, cmp_i, ret, rc, mapped>>
    /\ UNCHANGED <<flag_at_ret1, compared, fails_at_entry, AllHist>>
    /\ UNCHANGED <<pvars, phist, ivars, ihist, arrived, ovars, jvars, resources>>

NextDfp ==
    \/ DfpMmap
    \/ DfpSyncWait
    \/ DfpSyncRelease
    \/ DfpInitData
    \/ DfpCall
    \/ DfpPass0
    \/ DfpAllLoop
    \/ DfpPassBegin
    \/ DfpPassLoop
    \/ DfpPassEnd
    \/ DfpAcc0
    \/ DfpAcc1
    \/ DfpFlagCheck
    \/ DfpCompare
    \/ DfpReturn
    \/ DfpWhile
    \/ DfpMetrics
    \/ DfpDeinit
    \/ DfpAlarm
    \/ DfpFault

vars == <<hvars, dvars, dhist, pvars, phist, ivars, ihist, arrived, ovars, jvars, resources>>

SpecDfp == InitDfp /\ [][NextDfp]_vars

----------------------------------------------------------------------------
\* stress-prime.c

PrimeLabels == {"prime_init", "prime_run", "prime_setjmp", "prime_sighandler", "prime_time",
                "prime_nextprime", "prime_dur", "prime_step", "prime_inc", "prime_digits",
                "prime_while", "prime_finish", "prime_ops", "prime_summary", "prime_metric",
                "prime_deinit", "prime_return", "prime_done"}

\* the statements of the do-while loop, lines 123-145
PrimeLoopLabels == {"prime_time", "prime_nextprime", "prime_dur", "prime_step", "prime_inc",
                    "prime_digits"}

IsPrime(n) == n > 1 /\ \A d \in 2 .. (n - 1) : n % d # 0

\* mpz_nextprime: the least prime above n
RECURSIVE NextPrime(_)
NextPrime(n) == IF IsPrime(n + 1) THEN n + 1 ELSE NextPrime(n + 1)

\* mpz_sizeinbase(n, 10): the number of decimal digits
RECURSIVE SizeInBase10(_)
SizeInBase10(n) == IF n < 10 THEN 1 ELSE 1 + SizeInBase10(n \div 10)

\* entry of stress_prime (line 95), the method already set; count and jumped are
\* zero-initialised statics
InitPrime ==
    /\ InitHarness
    /\ pc = "prime_init"
    /\ max_ops \in 1 .. MaxOps
    /\ prime_method \in {STRESS_PRIME_METHOD_FACTORIAL, STRESS_PRIME_METHOD_INC,
                         STRESS_PRIME_METHOD_PWR2, STRESS_PRIME_METHOD_PWR10}
    /\ count = 0
    /\ jumped = FALSE
    /\ jmpbuf_set = FALSE
    /\ handler_set = FALSE
    /\ duration = 0
    /\ digits = 1
    /\ start = 0
    /\ value = 0
    /\ factorial = 0
    /\ t = 0
    /\ ops = 0
    /\ mpz_state = "none"
    /\ summaries = <<>>
    /\ deliveries = 0
    /\ escapes = 0
    /\ first_at = <<>>
    /\ escaped_at = <<>>
    /\ calls_completed = 0
    /\ dur_completed = 0
    /\ IdleDfp
    /\ InitAllHist
    /\ IdleIpsec

PrimeIdle == UNCHANGED <<dvars, dhist, ivars, ihist, arrived, ovars, jvars, resources>>

\* line 106: mpz_inits(start, value, factorial)
PrimeInit ==
    /\ pc = "prime_init"
    /\ mpz_state' = "live"
    /\ start' = 0
    /\ value' = 0
    /\ factorial' = 0
    /\ pc' = "prime_run"
    /\ UNCHANGED <<proc_state, continue_flag, counter, max_ops, now, exit_status, metrics,
                   fail_log>>
    /\ UNCHANGED <<count, jumped, jmpbuf_set, handler_set, prime_method, duration, digits,
                   t, ops, summaries>>
    /\ UNCHANGED phist
    /\ PrimeIdle

\* lines 108-111: the worker goes to the run state without a start barrier
PrimeRun ==
    /\ pc = "prime_run"
    /\ proc_state' = "RUN"
    /\ start' = 1
    /\ factorial' = 2
    /\ pc' = "prime_setjmp"
    /\ UNCHANGED <<continue_flag, counter, max_ops, now, exit_status, metrics, fail_log>>
    /\ UNCHANGED <<count, jumped, jmpbuf_set, handler_set, prime_method, duration, digits,
                   value, t, ops, mpz_state, summaries>>
    /\ UNCHANGED phist
    /\ PrimeIdle

\* lines 113-114: the direct return of sigsetjmp
PrimeSetjmp ==
    /\ pc = "prime_setjmp"
    /\ jumped' = FALSE
    /\ jmpbuf_set' = TRUE
    /\ pc' = "prime_sighandler"
    /\ UNCHANGED <<proc_state, continue_flag, counter, max_ops, now, exit_status, metrics,
                   fail_log>>
    /\ UNCHANGED <<count, handler_set, prime_method, duration, digits, start, value,
                   factorial, t, ops, mpz_state, summaries>>
    /\ UNCHANGED phist
    /\ PrimeIdle

\* lines 119-120: the handler is installed, or the stressor gives up
PrimeSighandler ==
    /\ pc = "prime_sighandler"
    /\ \/ /\ handler_set' = TRUE
          /\ pc' = "prime_time"
          /\ UNCHANGED exit_status
       \/ /\ exit_status' = "EXIT_NO_RESOURCE"
          /\ pc' = "prime_done"
          /\ UNCHANGED handler_set
    /\ UNCHANGED <<proc_state, continue_flag, counter, max_ops, now, metrics, fail_log>>
    /\ UNCHANGED <<count, jumped, jmpbuf_set, prime_method, duration, digits, start, value,
                   factorial, t, ops, mpz_state, summaries>>
    /\ UNCHANGED phist
    /\ PrimeIdle

\* (mutant) a loop that counts the bogo op before the computation
PrimeTime_CountFirst ==
    /\ pc = "prime_time"
    /\ t' = now
    /\ counter' = counter + 1
    /\ pc' = "prime_nextprime"
    /\ UNCHANGED <<proc_state, continue_flag, max_ops, now, exit_status, metrics,
                   fail_log>>
    /\ UNCHANGED <<count, jumped, jmpbuf_set, handler_set, prime_method, duration, digits,
                   start, value, factorial, ops, mpz_state, summaries>>
    /\ UNCHANGED phist
    /\ PrimeIdle

\* line 123: t = stress_time_now()
PrimeTime ==
    /\ pc = "prime_time"
    /\ t' = now
    /\ pc' = "prime_nextprime"
    /\ UNCHANGED <<proc_state, continue_flag, counter, max_ops, now, exit_status, metrics,
                   fail_log>>
    /\ UNCHANGED <<count, jumped, jmpbuf_set, handler_set, prime_method, duration, digits,
                   start, value, factorial, ops, mpz_state, summaries>>
    /\ UNCHANGED phist
    /\ PrimeIdle

\* line 124: time passes inside mpz_nextprime, which polls nothing
PrimeNextprimeTick ==
    /\ pc = "prime_nextprime"
    /\ now - t < MaxTicks
    /\ now' = now + 1
    /\ UNCHANGED <<pc, proc_state, continue_flag, counter, max_ops, exit_status, metrics,
                   fail_log>>
    /\ UNCHANGED pvars
    /\ UNCHANGED phist
    /\ PrimeIdle

\* line 124: mpz_nextprime returns
PrimeNextprimeDone ==
    /\ pc = "prime_nextprime"
    /\ value' = NextPrime(start)
    /\ calls_completed' = calls_completed + 1
    /\ dur_completed' = dur_completed + (now - t)
    /\ pc' = "prime_dur"
    /\ UNCHANGED <<proc_state, continue_flag, counter, max_ops, now, exit_status, metrics,
                   fail_log>>
    /\ UNCHANGED <<count, jumped, jmpbuf_set, handler_set, prime_method, duration, digits,
                   start, factorial, t, ops, mpz_state, summaries>>
    /\ UNCHANGED <<deliveries, escapes, first_at, escaped_at>>
    /\ PrimeIdle

\* line 125: duration += stress_time_now() - t
PrimeDuration ==
    /\ pc = "prime_dur"
    /\ duration' = duration + (now - t)
    /\ pc' = "prime_step"
    /\ UNCHANGED <<proc_state, continue_flag, counter, max_ops, now, exit_status, metrics,
                   fail_log>>
    /\ UNCHANGED <<count, jumped, jmpbuf_set, handler_set, prime_method, digits,
                   start, value, factorial, t, ops, mpz_state, summaries>>
    /\ UNCHANGED phist
    /\ PrimeIdle

\* lines 127-142: the next start value
PrimeStep ==
    /\ pc = "prime_step"
    /\ CASE prime_method = STRESS_PRIME_METHOD_INC ->
                /\ start' = value + 2
                /\ UNCHANGED factorial
         [] prime_method = STRESS_PRIME_METHOD_PWR2 ->
                /\ start' = start * 2
                /\ UNCHANGED factorial
         [] prime_method = STRESS_PRIME_METHOD_PWR10 ->
                /\ start' = start * 10
                /\ UNCHANGED factorial
         [] OTHER ->
                /\ start' = start * factorial
                /\ factorial' = factorial + 1
    /\ pc' = "prime_inc"
    /\ UNCHANGED <<proc_state, continue_flag, counter, max_ops, now, exit_status, metrics,
                   fail_log>>
    /\ UNCHANGED <<count, jumped, jmpbuf_set, handler_set, prime_method, duration, digits,
                   value, t, ops, mpz_state, summaries>>
    /\ UNCHANGED phist
    /\ PrimeIdle

\* line 143: stress_bogo_inc(args)
PrimeInc ==
    /\ pc = "prime_inc"
    /\ counter' = counter + 1
    /\ pc' = "prime_digits"
    /\ UNCHANGED <<proc_state, continue_flag, max_ops, now, exit_status, metrics, fail_log>>
    /\ UNCHANGED pvars
    /\ UNCHANGED phist
    /\ PrimeIdle

\* line 144: digits = mpz_sizeinbase(value, 10)
PrimeDigits ==
    /\ pc = "prime_digits"
    /\ digits' = SizeInBase10(value)
    /\ pc' = "prime_while"
    /\ UNCHANGED <<proc_state, continue_flag, counter, max_ops, now, exit_status, metrics,
                   fail_log>>
    /\ UNCHANGED <<count, jumped, jmpbuf_set, handler_set, prime_method, duration,
                   start, value, factorial, t, ops, mpz_state, summaries>>
    /\ UNCHANGED phist
    /\ PrimeIdle

\* line 145: while (stress_continue(args))
PrimeWhile ==
    /\ pc = "prime_while"
    /\ pc' = IF stress_continue THEN "prime_time" ELSE "prime_finish"
    /\ UNCHANGED <<proc_state, continue_flag, counter, max_ops, now, exit_status, metrics,
                   fail_log>>
    /\ UNCHANGED pvars
    /\ UNCHANGED phist
    /\ PrimeIdle

\* (mutant) a finish section that clears the big numbers whatever brought it there
CleanupCond_Always == TRUE

\* line 148: the big numbers are cleared only when the run did not jump
CleanupCond == ~jumped

\* lines 147-154: the big numbers are cleared unless the run jumped here
PrimeFinish ==
    /\ pc = "prime_finish"
    /\ mpz_state' = IF CleanupCond THEN "cleared" ELSE mpz_state
    /\ pc' = "prime_ops"
    /\ UNCHANGED <<proc_state, continue_flag, counter, max_ops, now, exit_status, metrics,
                   fail_log>>
    /\ UNCHANGED <<count, jumped, jmpbuf_set, handler_set, prime_method, duration, digits,
                   start, value, factorial, t, ops, summaries>>
    /\ UNCHANGED phist
    /\ PrimeIdle

\* line 156: ops = stress_bogo_get(args)
PrimeOps ==
    /\ pc = "prime_ops"
    /\ ops' = counter
    /\ pc' = "prime_summary"
    /\ UNCHANGED <<proc_state, continue_flag, counter, max_ops, now, exit_status, metrics,
                   fail_log>>
    /\ UNCHANGED <<count, jumped, jmpbuf_set, handler_set, prime_method, duration, digits,
                   start, value, factorial, t, mpz_state, summaries>>
    /\ UNCHANGED phist
    /\ PrimeIdle

\* lines 158-159: the summary line
PrimeSummary ==
    /\ pc = "prime_summary"
    /\ summaries' = Append(summaries, [ops |-> ops, digits |-> digits])
    /\ pc' = "prime_metric"
    /\ UNCHANGED <<proc_state, continue_flag, counter, max_ops, now, exit_status, metrics,
                   fail_log>>
    /\ UNCHANGED <<count, jumped, jmpbuf_set, handler_set, prime_method, duration, digits,
                   start, value, factorial, t, ops, mpz_state>>
    /\ UNCHANGED phist
    /\ PrimeIdle

\* lines 161-162: the rate, ops over duration, or zero when no time was measured
PrimeMetric ==
    /\ pc = "prime_metric"
    /\ metrics' = Append(metrics,
            [index |-> 0, name |-> "primes per second",
             ops |-> IF duration > 0 THEN ops ELSE 0,
             duration |-> IF duration > 0 THEN duration ELSE 1,
             kind |-> "HARMONIC_MEAN"])
    /\ pc' = "prime_deinit"
    /\ UNCHANGED <<proc_state, continue_flag, counter, max_ops, now, exit_status, fail_log>>
    /\ UNCHANGED pvars
    /\ UNCHANGED phist
    /\ PrimeIdle

\* line 164
PrimeDeinit ==
    /\ pc = "prime_deinit"
    /\ proc_state' = "DEINIT"
    /\ pc' = "prime_return"
    /\ UNCHANGED <<continue_flag, counter, max_ops, now, exit_status, metrics, fail_log>>
    /\ UNCHANGED pvars
    /\ UNCHANGED phist
    /\ PrimeIdle

\* line 166
PrimeReturn ==
    /\ pc = "prime_return"
    /\ exit_status' = "EXIT_SUCCESS"
    /\ pc' = "prime_done"
    /\ UNCHANGED <<proc_state, continue_flag, counter, max_ops, now, metrics, fail_log>>
    /\ UNCHANGED pvars
    /\ UNCHANGED phist
    /\ PrimeIdle

\* (mutant) a handler that jumps on the first delivery
JumpCond_First(c) == c > 0

\* (mutant) a handler that jumps from the third delivery on
JumpCond_Late(c) == c > 2

\* line 59: the handler jumps when its count is above one
JumpCond(c) == c > 1

\* a delivery of SIGALRM while stress_prime runs.  Before line 119 the harness's
\* default handler clears the flag.  After it, stress_prime_alarm_handler (lines
\* 52-61) clears the flag, counts, and when the count is above one jumps to the
\* saved point, where sigsetjmp returns 1 and lines 115-116 set jumped and go to
\* the finish section.
PrimeAlarm ==
    /\ pc \in PrimeLabels \ {"prime_done"}
    /\ deliveries < MaxAlarms
    /\ deliveries' = deliveries + 1
    /\ continue_flag' = FALSE
    /\ IF handler_set
       THEN /\ count' = count + 1
            /\ first_at' = IF count = 0 THEN <<pc, calls_completed>> ELSE first_at
            /\ IF JumpCond(count + 1)
               THEN /\ jumped' = TRUE
                    /\ pc' = "prime_finish"
                    /\ escapes' = escapes + 1
                    /\ escaped_at' = IF escapes = 0 THEN <<pc, calls_completed>>
                                     ELSE escaped_at
               ELSE UNCHANGED <<jumped, pc, escapes, escaped_at>>
       ELSE UNCHANGED <<count, first_at, jumped, pc, escapes, escaped_at>>
    /\ UNCHANGED <<proc_state, counter, max_ops, now, exit_status, metrics, fail_log>>
    /\ UNCHANGED <<jmpbuf_set, handler_set, prime_method, duration, digits, start, value,
                   factorial, t, ops, mpz_state, summaries>>
    /\ UNCHANGED <<calls_completed, dur_completed>>
    /\ PrimeIdle

NextPrimeRun ==
    \/ PrimeInit
    \/ PrimeRun
    \/ PrimeSetjmp
    \/ PrimeSighandler
    \/ PrimeTime
    \/ PrimeNextprimeTick
    \/ PrimeNextprimeDone
    \/ PrimeDuration
    \/ PrimeStep
    \/ PrimeInc
    \/ PrimeDigits
    \/ PrimeWhile
    \/ PrimeFinish
    \/ PrimeOps
    \/ PrimeSummary
    \/ PrimeMetric
    \/ PrimeDeinit
    \/ PrimeReturn
    \/ PrimeAlarm

SpecPrime == InitPrime /\ [][NextPrimeRun]_vars

\* the statements of stress_prime outside mpz_nextprime: straight-line code, which
\* goes on whenever it has the processor.  Nothing is assumed of mpz_nextprime,
\* which may take for ever, nor of the deliveries of the signal.
PrimeStraightLine ==
    \/ PrimeInit
    \/ PrimeRun
    \/ PrimeSetjmp
    \/ PrimeSighandler
    \/ PrimeTime
    \/ PrimeDuration
    \/ PrimeStep
    \/ PrimeInc
    \/ PrimeDigits
    \/ PrimeWhile
    \/ PrimeFinish
    \/ PrimeOps
    \/ PrimeSummary
    \/ PrimeMetric
    \/ PrimeDeinit
    \/ PrimeReturn

\* the runs with the largest op budget, in which the signal can find the worker in
\* any of the calls of mpz_nextprime
InitPrimeFair == InitPrime /\ max_ops = MaxOps

SpecPrimeFair == InitPrimeFair /\ [][NextPrimeRun]_vars /\ WF_vars(PrimeStraightLine)

----------------------------------------------------------------------------
\* stress-ipsec-mb.c

\* the bound on ipsec_mb_jobs and on the failed output-buffer allocations of a run
MaxJobs == 1
MaxAllocFails == 1

\* lines 96-134: mb_features[], the required bits and the init function of each entry
mb_features ==
    << [name |-> "avx",     init_func |-> "init_mb_mgr_avx",
        features |-> {"AVX", "CMOV", "AESNI"}],
       [name |-> "avx2",    init_func |-> "init_mb_mgr_avx2",
        features |-> {"AVX2", "AVX", "CMOV", "AESNI"}],
       [name |-> "avx512",  init_func |-> "init_mb_mgr_avx512",
        features |-> {"AVX512_SKX", "AVX2", "AVX", "CMOV", "AESNI"}],
       [name |-> "noaesni", init_func |-> "init_mb_mgr_sse",
        features |-> {"SSE4_2", "CMOV"}],
       [name |-> "sse",     init_func |-> "init_mb_mgr_sse",
        features |-> {"SSE4_2", "CMOV", "AESNI"}] >>

\* SIZEOF_ARRAY(mb_features) and the indices of the table
NumFeatures == Len(mb_features)
FeatureIdx == 0 .. (NumFeatures - 1)
MbFeature(i) == mb_features[i + 1]

\* lines 714-723: stress_ipsec_funcs[], entry 0 is the aggregator
stress_ipsec_funcs ==
    <<"all", "cmac", "ctr", "des", "hmac-md5", "hmac-sha1", "hmac-sha512", "sha">>
STRESS_NUM_IPSEC_FUNCS == Len(stress_ipsec_funcs)
IpsecMethods == 0 .. (STRESS_NUM_IPSEC_FUNCS - 1)

\* the feature words p_mgr->features a host may report (line 161)
Hosts ==
    { {},
      {"AVX2", "CMOV", "AESNI"},
      {"SSE4_2", "CMOV"},
      {"AVX", "CMOV", "AESNI"},
      {"SSE4_2", "CMOV", "AESNI"},
      {"SSE4_2", "CMOV", "AESNI", "AVX"},
      {"SSE4_2", "CMOV", "AESNI", "AVX", "AVX2"},
      {"SSE4_2", "CMOV", "AESNI", "AVX", "AVX2", "AVX512_SKX"} }

\* keep_stressing(args): the flag is set and the op budget, if any, is not used up
keep_stressing == continue_flag /\ (max_ops = 0 \/ counter < max_ops)

\* the budgets a run is given: one exhausted by the first job, one that outlasts a
\* full cycle of "all" under one feature
IpsecBudgets == {1, 2 * STRESS_NUM_IPSEC_FUNCS}

IpsecLabels == {"ip_version", "ip_alloc", "ip_probe", "ip_gate", "ip_pin", "ip_run",
                "ip_loop", "ip_cf", "ip_all", "ip_work", "ip_cf_acc", "ip_while",
                "ip_metrics", "ip_deinit", "ip_done"}

\* an active call of stress_ipsec_call_func or stress_ipsec_all: its func_index, its
\* loop variable i and the locals c and t of stress_ipsec_call_func
Frame(f, x) == [fn |-> f, index |-> x, i |-> IF f = "all" THEN 1 ELSE 0, c |-> 0, t |-> 0]
Top == stack[Len(stack)]
Pop == SubSeq(stack, 1, Len(stack) - 1)
SetTop(f) == [stack EXCEPT ![Len(stack)] = f]

\* entry of stress_ipsec_mb (line 791), the settings already stored; the statics of
\* mb_features[] hold their initialisers
InitIpsec ==
    /\ InitHarness
    /\ pc = "ip_version"
    /\ max_ops \in IpsecBudgets
    /\ ipsec_mb_method \in IpsecMethods
    /\ ipsec_mb_feature \in {0 - 1} \cup FeatureIdx
    /\ ipsec_mb_jobs \in 1 .. MaxJobs
    /\ supported = [i \in FeatureIdx |-> FALSE]
    /\ istats = [i \in FeatureIdx |-> [ops |-> 0, duration |-> 0]]
    /\ features = {}
    /\ mb_mgr = "NULL"
    /\ mgr_arch = 0 - 1
    /\ stack = <<>>
    /\ main_i = 0
    /\ alloc_fails = 0
    /\ inited = {}
    /\ ran = {}
    /\ pass_runs = [i \in FeatureIdx |-> 0]
    /\ ops_under = [i \in FeatureIdx |-> 0]
    /\ IdleDfp
    /\ InitAllHist
    /\ IdlePrime

IpsecIdle == UNCHANGED <<dvars, faults, CallHist, pvars, phist, arrived, ovars, jvars>>

\* lines 805-810: the library version test
IpsecVersion ==
    /\ pc = "ip_version"
    /\ \/ /\ pc' = "ip_alloc"
          /\ UNCHANGED exit_status
       \/ /\ exit_status' = "EXIT_NOT_IMPLEMENTED"
          /\ pc' = "ip_done"
    /\ UNCHANGED <<proc_state, continue_flag, counter, max_ops, now, metrics, fail_log>>
    /\ UNCHANGED <<ivars, AllHist>>
    /\ UNCHANGED ihist
    /\ UNCHANGED resources
    /\ IpsecIdle

\* lines 812-817: alloc_mb_mgr, which may fail
IpsecAlloc ==
    /\ pc = "ip_alloc"
    /\ \/ /\ mb_mgr' = "ALLOCATED"
          /\ resources' = Acquire("mb_mgr")
          /\ pc' = "ip_probe"
          /\ UNCHANGED exit_status
       \/ /\ exit_status' = "EXIT_NO_RESOURCE"
          /\ pc' = "ip_done"
          /\ UNCHANGED <<mb_mgr, resources>>
    /\ UNCHANGED <<proc_state, continue_flag, counter, max_ops, now, metrics, fail_log>>
    /\ UNCHANGED <<supported, istats, features, ipsec_mb_feature, ipsec_mb_method,
                   ipsec_mb_jobs, mgr_arch, stack, main_i, alloc_fails>>
    /\ UNCHANGED AllHist
    /\ UNCHANGED ihist
    /\ IpsecIdle

\* (mutant) an entry is taken as supported when the probed word has any of its bits
Supports_AnyBit(word, i) == (MbFeature(i).features \cap word) # {}

\* line 822: an entry is supported when the probed word has all its bits
Supports(word, i) == (MbFeature(i).features \cap word) = MbFeature(i).features

\* lines 819-827: the probe, the supported marks and the reset of the stats
IpsecProbe ==
    /\ pc = "ip_probe"
    /\ \E word \in Hosts :
          /\ features' = word
          /\ supported' = [i \in FeatureIdx |-> Supports(word, i)]
    /\ istats' = [i \in FeatureIdx |-> [ops |-> 0, duration |-> 0]]
    /\ pc' = "ip_gate"
    /\ UNCHANGED <<proc_state, continue_flag, counter, max_ops, now, exit_status, metrics,
                   fail_log>>
    /\ UNCHANGED <<ipsec_mb_feature, ipsec_mb_method, ipsec_mb_jobs, mb_mgr, mgr_arch,
                   stack, main_i, alloc_fails>>
    /\ UNCHANGED AllHist
    /\ UNCHANGED ihist
    /\ UNCHANGED resources
    /\ IpsecIdle

\* (mutant) the test for an empty set of supported entries is lost
got_features_Always == TRUE

\* line 823: got_features after the loop
got_features == \E i \in FeatureIdx : supported[i]

\* lines 828-833: no entry is supported, the run is skipped
IpsecGate ==
    /\ pc = "ip_gate"
    /\ IF ~got_features
       THEN /\ mb_mgr' = "FREED"
            /\ resources' = Release("mb_mgr")
            /\ exit_status' = "EXIT_NOT_IMPLEMENTED"
            /\ pc' = "ip_done"
       ELSE /\ pc' = "ip_pin"
            /\ UNCHANGED <<mb_mgr, exit_status, resources>>
    /\ UNCHANGED <<proc_state, continue_flag, counter, max_ops, now, metrics, fail_log>>
    /\ UNCHANGED <<supported, istats, features, ipsec_mb_feature, ipsec_mb_method,
                   ipsec_mb_jobs, mgr_arch, stack, main_i, alloc_fails>>
    /\ UNCHANGED AllHist
    /\ UNCHANGED ihist
    /\ IpsecIdle

\* (mutant) the supported marks are left as probed when a feature is requested
Pinned_Keep(i) == supported[i]

\* lines 847-849: the supported mark of entry i once a feature is requested
Pinned(i) == (i = ipsec_mb_feature)

\* lines 835-852: a requested feature is refused when unsupported, else it becomes
\* the only supported one
IpsecPin ==
    /\ pc = "ip_pin"
    /\ IF ipsec_mb_feature >= 0
       THEN IF ~supported[ipsec_mb_feature]
            THEN /\ mb_mgr' = "FREED"
                 /\ resources' = Release("mb_mgr")
                 /\ exit_status' = "EXIT_NOT_IMPLEMENTED"
                 /\ pc' = "ip_done"
                 /\ UNCHANGED supported
            ELSE /\ supported' = [i \in FeatureIdx |-> Pinned(i)]
                 /\ pc' = "ip_run"
                 /\ UNCHANGED <<mb_mgr, exit_status, resources>>
       ELSE /\ pc' = "ip_run"
            /\ UNCHANGED <<supported, mb_mgr, exit_status, resources>>
    /\ UNCHANGED <<proc_state, continue_flag, counter, max_ops, now, metrics, fail_log>>
    /\ UNCHANGED <<istats, features, ipsec_mb_feature, ipsec_mb_method, ipsec_mb_jobs,
                   mgr_arch, stack, main_i, alloc_fails>>
    /\ UNCHANGED AllHist
    /\ UNCHANGED ihist
    /\ IpsecIdle

\* lines 854-857: the data is filled, the state becomes RUN, the first pass starts
IpsecRun ==
    /\ pc = "ip_run"
    /\ proc_state' = "RUN"
    /\ main_i' = 0
    /\ pc' = "ip_loop"
    /\ UNCHANGED <<continue_flag, counter, max_ops, now, exit_status, metrics, fail_log>>
    /\ UNCHANGED <<supported, istats, features, ipsec_mb_feature, ipsec_mb_method,
                   ipsec_mb_jobs, mb_mgr, mgr_arch, stack, alloc_fails>>
    /\ UNCHANGED AllHist
    /\ pass_runs' = [i \in FeatureIdx |-> 0]
    /\ UNCHANGED <<inited, ran, ops_under>>
    /\ UNCHANGED resources
    /\ IpsecIdle

\* lines 858-863: the for loop of a pass; under each supported entry the manager is
\* set up and stress_ipsec_call_func is called with the selected method
IpsecLoop ==
    /\ pc = "ip_loop"
    /\ IF main_i < NumFeatures
       THEN IF supported[main_i]
            THEN /\ mgr_arch' = main_i
                 /\ inited' = inited \cup {main_i}
                 /\ stack' = Append(stack, Frame("call_func", ipsec_mb_method))
                 /\ pc' = "ip_cf"
                 /\ UNCHANGED main_i
            ELSE /\ main_i' = main_i + 1
                 /\ UNCHANGED <<pc, mgr_arch, stack, inited>>
       ELSE /\ pc' = "ip_while"
            /\ UNCHANGED <<main_i, mgr_arch, stack, inited>>
    /\ UNCHANGED <<proc_state, continue_flag, counter, max_ops, now, exit_status, metrics,
                   fail_log>>
    /\ UNCHANGED <<supported, istats, features, ipsec_mb_feature, ipsec_mb_method,
                   ipsec_mb_jobs, mb_mgr, alloc_fails>>
    /\ UNCHANGED AllHist
    /\ UNCHANGED <<ran, pass_runs, ops_under>>
    /\ UNCHANGED resources
    /\ IpsecIdle

\* lines 735-749: the loop of stress_ipsec_call_func.  Under each supported entry c
\* and t are taken, the manager is set up and the function of func_index is called
\* (line 744); after the last entry the call returns to stress_ipsec_all (line 766)
\* or to the pass (line 861)
IpsecCallFunc ==
    /\ pc = "ip_cf"
    /\ IF Top.i < NumFeatures
       THEN IF supported[Top.i]
            THEN /\ mgr_arch' = Top.i
                 /\ inited' = inited \cup {Top.i}
                 /\ pass_runs' = IF Len(stack) = 1
                                  THEN [pass_runs EXCEPT ![Top.i] = @ + 1]
                                  ELSE pass_runs
                 /\ IF Top.index = 0
                    THEN /\ stack' = Append(SetTop([Top EXCEPT !.c = counter, !.t = now]),
                                            Frame("all", 0))
                         /\ all_log' = <<>>
                         /\ all_stop' = ~keep_stressing
                         /\ pc' = "ip_all"
                    ELSE /\ stack' = SetTop([Top EXCEPT !.c = counter, !.t = now])
                         /\ pc' = "ip_work"
                         /\ UNCHANGED <<all_log, all_stop>>
                 /\ UNCHANGED main_i
            ELSE /\ stack' = SetTop([Top EXCEPT !.i = @ + 1])
                 /\ UNCHANGED <<pc, mgr_arch, main_i, all_log, all_stop, inited, pass_runs>>
       ELSE /\ IF Len(stack) = 1
               THEN /\ stack' = Pop
                    /\ main_i' = main_i + 1
                    /\ pc' = "ip_loop"
                    /\ UNCHANGED all_stop
               ELSE /\ stack' = [Pop EXCEPT ![Len(stack) - 1].i = @ + 1]
                    /\ all_stop' = (all_stop \/ ~keep_stressing)
                    /\ pc' = "ip_all"
                    /\ UNCHANGED main_i
            /\ UNCHANGED <<mgr_arch, all_log, inited, pass_runs>>
    /\ UNCHANGED <<proc_state, continue_flag, counter, max_ops, now, exit_status, metrics,
                   fail_log>>
    /\ UNCHANGED <<supported, istats, features, ipsec_mb_feature, ipsec_mb_method,
                   ipsec_mb_jobs, mb_mgr, alloc_fails>>
    /\ UNCHANGED all_done
    /\ UNCHANGED <<ran, ops_under>>
    /\ UNCHANGED resources
    /\ IpsecIdle

\* (mutant) the loop of stress_ipsec_all does not test the stop condition
IpsecAllCond_NoStop(i) == i < STRESS_NUM_IPSEC_FUNCS

\* line 765: the loop condition of stress_ipsec_all
IpsecAllCond(i) == keep_stressing /\ (i < STRESS_NUM_IPSEC_FUNCS)

\* lines 765-766: the loop of stress_ipsec_all
IpsecAll ==
    /\ pc = "ip_all"
    /\ all_stop' = (all_stop \/ ~keep_stressing)
    /\ IF IpsecAllCond(Top.i)
       THEN /\ stack' = Append(stack, Frame("call_func", Top.i))
            /\ all_log' = Append(all_log, Top.i)
            /\ pc' = "ip_cf"
            /\ UNCHANGED all_done
       ELSE /\ stack' = Pop
            /\ all_done' = [done |-> TRUE, log |-> all_log, stop |-> all_stop',
                            failed |-> FALSE]
            /\ pc' = "ip_cf_acc"
            /\ UNCHANGED all_log
    /\ UNCHANGED <<proc_state, continue_flag, counter, max_ops, now, exit_status, metrics,
                   fail_log>>
    /\ UNCHANGED <<supported, istats, features, ipsec_mb_feature, ipsec_mb_method,
                   ipsec_mb_jobs, mb_mgr, mgr_arch, main_i, alloc_fails>>
    /\ UNCHANGED ihist
    /\ UNCHANGED resources
    /\ IpsecIdle

\* the workload functions (lines 280-712): the output buffer is allocated and the
\* call returns at once when that fails; else every job is submitted, returned and
\* counted, which takes one tick
IpsecWork ==
    /\ pc = "ip_work"
    /\ \/ /\ counter' = counter + ipsec_mb_jobs
          /\ now' = now + 1
          /\ ops_under' = [ops_under EXCEPT ![mgr_arch] = @ + ipsec_mb_jobs]
          /\ UNCHANGED alloc_fails
       \/ /\ alloc_fails < MaxAllocFails
          /\ alloc_fails' = alloc_fails + 1
          /\ UNCHANGED <<counter, now, ops_under>>
    /\ pc' = "ip_cf_acc"
    /\ UNCHANGED <<proc_state, continue_flag, max_ops, exit_status, metrics, fail_log>>
    /\ UNCHANGED <<supported, istats, features, ipsec_mb_feature, ipsec_mb_method,
                   ipsec_mb_jobs, mb_mgr, mgr_arch, stack, main_i>>
    /\ UNCHANGED AllHist
    /\ ran' = ran \cup {mgr_arch}
    /\ UNCHANGED <<inited, pass_runs>>
    /\ UNCHANGED resources
    /\ IpsecIdle

\* lines 746-747: the time and the ops of the call are added to the entry's stats
IpsecAccumulate ==
    /\ pc = "ip_cf_acc"
    /\ istats' = [istats EXCEPT ![Top.i].duration = @ + (now - Top.t),
                                ![Top.i].ops = @ + (counter - Top.c)]
    /\ stack' = SetTop([Top EXCEPT !.i = @ + 1])
    /\ pc' = "ip_cf"
    /\ UNCHANGED <<proc_state, continue_flag, counter, max_ops, now, exit_status, metrics,
                   fail_log>>
    /\ UNCHANGED <<supported, features, ipsec_mb_feature, ipsec_mb_method, ipsec_mb_jobs,
                   mb_mgr, mgr_arch, main_i, alloc_fails>>
    /\ UNCHANGED AllHist
    /\ UNCHANGED ihist
    /\ UNCHANGED resources
    /\ IpsecIdle

\* line 864: while (keep_stressing(args))
IpsecWhile ==
    /\ pc = "ip_while"
    /\ IF keep_stressing
       THEN /\ main_i' = 0
            /\ pass_runs' = [i \in FeatureIdx |-> 0]
            /\ pc' = "ip_loop"
       ELSE /\ pc' = "ip_metrics"
            /\ UNCHANGED <<main_i, pass_runs>>
    /\ UNCHANGED <<proc_state, continue_flag, counter, max_ops, now, exit_status, metrics,
                   fail_log>>
    /\ UNCHANGED <<supported, istats, features, ipsec_mb_feature, ipsec_mb_method,
                   ipsec_mb_jobs, mb_mgr, mgr_arch, stack, alloc_fails>>
    /\ UNCHANGED AllHist
    /\ UNCHANGED <<inited, ran, ops_under>>
    /\ UNCHANGED resources
    /\ IpsecIdle

\* lines 867-881: the rate of every entry with a positive duration, at index j
RECURSIVE IpsecRates(_, _)
IpsecRates(i, j) ==
    IF i >= NumFeatures THEN <<>>
    ELSE IF istats[i].duration > 0
         THEN <<[index |-> j, name |-> MbFeature(i).name, ops |-> istats[i].ops,
                 duration |-> istats[i].duration, kind |-> "RATE"]>>
              \o IpsecRates(i + 1, j + 1)
         ELSE IpsecRates(i + 1, j)

\* lines 866-883
IpsecMetrics ==
    /\ pc = "ip_metrics"
    /\ metrics' = metrics \o IpsecRates(0, 0)
    /\ pc' = "ip_deinit"
    /\ UNCHANGED <<proc_state, continue_flag, counter, max_ops, now, exit_status, fail_log>>
    /\ UNCHANGED <<ivars, AllHist>>
    /\ UNCHANGED ihist
    /\ UNCHANGED resources
    /\ IpsecIdle

\* lines 885-889
IpsecDeinit ==
    /\ pc = "ip_deinit"
    /\ proc_state' = "DEINIT"
    /\ mb_mgr' = "FREED"
    /\ resources' = Release("mb_mgr")
    /\ exit_status' = "EXIT_SUCCESS"
    /\ pc' = "ip_done"
    /\ UNCHANGED <<continue_flag, counter, max_ops, now, metrics, fail_log>>
    /\ UNCHANGED <<supported, istats, features, ipsec_mb_feature, ipsec_mb_method,
                   ipsec_mb_jobs, mgr_arch, stack, main_i, alloc_fails>>
    /\ UNCHANGED AllHist
    /\ UNCHANGED ihist
    /\ IpsecIdle

\* the timeout signal under the harness's default handler: the flag is cleared
IpsecAlarm ==
    /\ pc \in IpsecLabels \ {"ip_done"}
    /\ continue_flag
    /\ continue_flag' = FALSE
    /\ UNCHANGED <<pc, proc_state, counter, max_ops, now, exit_status, metrics, fail_log>>
    /\ UNCHANGED <<ivars, AllHist>>
    /\ UNCHANGED ihist
    /\ UNCHANGED resources
    /\ IpsecIdle

NextIpsec ==
    \/ IpsecVersion
    \/ IpsecAlloc
    \/ IpsecProbe
    \/ IpsecGate
    \/ IpsecPin
    \/ IpsecRun
    \/ IpsecLoop
    \/ IpsecCallFunc
    \/ IpsecAll
    \/ IpsecWork
    \/ IpsecAccumulate
    \/ IpsecWhile
    \/ IpsecMetrics
    \/ IpsecDeinit
    \/ IpsecAlarm

SpecIpsec == InitIpsec /\ [][NextIpsec]_vars

----------------------------------------------------------------------------
\* One call of a workload of stress-ipsec-mb.c (lines 280-705), job by job.  The
\* seven workloads differ in the fields of the job they fill in and are the same
\* in what they do with the queue; the line numbers are those of stress_ipsec_ctr.

\* the most jobs a call is asked to run
MaxCallJobs == 3

\* the status a job comes back with: completed, or anything else
JobStatuses == {"STS_COMPLETED", "STS_INTERNAL_ERROR"}

JobIds == 0 .. (MaxCallJobs - 1)

\* entry of a workload whose manager has just been initialised by init_func
\* (line 743): the queue of the library is empty
InitJobs ==
    /\ pc = "job_alloc"
    /\ proc_state = "RUN"
    /\ continue_flag = TRUE
    /\ counter = 0
    /\ max_ops = 0
    /\ now = 0
    /\ exit_status = "NONE"
    /\ metrics = <<>>
    /\ fail_log = <<>>
    /\ arrived = 0
    /\ settings = [prime_method |-> 0 - 1, ipsec_mb_method |-> 0 - 1,
                   ipsec_mb_feature |-> 0 - 1]
    /\ opt_call = <<>>
    /\ opt_ret = 0
    /\ jobs \in 1 .. MaxCallJobs
    /\ job_name \in {stress_ipsec_funcs[k] : k \in 2 .. STRESS_NUM_IPSEC_FUNCS}
    /\ job_j = 0
    /\ jobs_done = 0
    /\ encoded = "none"
    /\ mb_queue = <<>>
    /\ err_log = <<>>
    /\ returned = [k \in JobIds |-> 0]
    /\ job_status = [k \in JobIds |-> "NONE"]
    /\ resources = NoResources
    /\ IdleDfp
    /\ IdlePrime
    /\ IdleIpsec
    /\ InitAllHist

JobIdle == UNCHANGED <<dvars, dhist, pvars, phist, ivars, ihist, arrived, ovars>>

\* lines 228-241: stress_job_check_status for a job handed back with status st
stress_job_check_status(st) ==
    IF st # "STS_COMPLETED"
    THEN /\ err_log' = Append(err_log, <<job_name, "job not completed">>)
         /\ UNCHANGED <<jobs_done, counter>>
    ELSE /\ jobs_done' = jobs_done + 1
         /\ counter' = counter + 1
         /\ UNCHANGED err_log

\* the library hands back the oldest job of the queue q, with some status, and
\* the caller checks it
HandBack(q) ==
    \E st \in JobStatuses :
        /\ mb_queue' = Tail(q)
        /\ returned' = [returned EXCEPT ![Head(q)] = @ + 1]
        /\ job_status' = [job_status EXCEPT ![Head(q)] = st]
        /\ stress_job_check_status(st)

\* lines 455-457: the output buffer is allocated, or the call returns
JobAlloc ==
    /\ pc = "job_alloc"
    /\ \/ /\ encoded' = "live"
          /\ resources' = Acquire("encoded")
          /\ pc' = "job_empty"
       \/ /\ pc' = "job_ret"
          /\ UNCHANGED <<encoded, resources>>
    /\ UNCHANGED <<proc_state, continue_flag, counter, max_ops, now, exit_status, metrics,
                   fail_log>>
    /\ UNCHANGED <<jobs, job_name, job_j, jobs_done, mb_queue, err_log, returned, job_status>>
    /\ JobIdle

\* lines 462 and 488, stress_job_empty: the queue is flushed and what comes out
\* is dropped
JobEmpty ==
    /\ pc \in {"job_empty", "job_empty_end"}
    /\ mb_queue' = <<>>
    /\ returned' = [k \in JobIds |->
                        returned[k] + (IF \E n \in DOMAIN mb_queue : mb_queue[n] = k
                                       THEN 1 ELSE 0)]
    /\ pc' = IF pc = "job_empty" THEN "job_submit" ELSE "job_free"
    /\ UNCHANGED <<proc_state, continue_flag, counter, max_ops, now, exit_status, metrics,
                   fail_log>>
    /\ UNCHANGED <<jobs, job_name, job_j, jobs_done, encoded, err_log, job_status>>
    /\ UNCHANGED resources
    /\ JobIdle

\* lines 464-482: one round of the submit loop.  IMB_SUBMIT_JOB takes the job and
\* hands back nothing or the oldest job it holds.
JobSubmit ==
    /\ pc = "job_submit"
    /\ IF job_j < jobs
       THEN /\ job_j' = job_j + 1
            /\ UNCHANGED pc
            /\ \/ /\ mb_queue' = Append(mb_queue, job_j)
                  /\ UNCHANGED <<returned, job_status, jobs_done, counter, err_log>>
               \/ HandBack(Append(mb_queue, job_j))
       ELSE /\ pc' = "job_flush"
            /\ UNCHANGED <<job_j, mb_queue, returned, job_status, jobs_done, counter,
                           err_log>>
    /\ UNCHANGED <<proc_state, continue_flag, max_ops, now, exit_status, metrics, fail_log>>
    /\ UNCHANGED <<jobs, job_name, encoded>>
    /\ UNCHANGED resources
    /\ JobIdle

\* lines 484-485: IMB_FLUSH_JOB hands back the oldest job, or nothing when the
\* queue is empty
JobFlush ==
    /\ pc = "job_flush"
    /\ IF mb_queue # <<>>
       THEN /\ HandBack(mb_queue)
            /\ UNCHANGED pc
       ELSE /\ pc' = "job_jobs_done"
            /\ UNCHANGED <<mb_queue, returned, job_status, jobs_done, counter, err_log>>
    /\ UNCHANGED <<proc_state, continue_flag, max_ops, now, exit_status, metrics, fail_log>>
    /\ UNCHANGED <<jobs, job_name, job_j, encoded>>
    /\ UNCHANGED resources
    /\ JobIdle

\* lines 247-256 and 487: stress_jobs_done
JobsDone ==
    /\ pc = "job_jobs_done"
    /\ err_log' = IF jobs_done # jobs
                  THEN Append(err_log, <<job_name, "only processed", jobs_done, jobs>>)
                  ELSE err_log
    /\ pc' = "job_empty_end"
    /\ UNCHANGED <<proc_state, continue_flag, counter, max_ops, now, exit_status, metrics,
                   fail_log>>
    /\ UNCHANGED <<jobs, job_name, job_j, jobs_done, encoded, mb_queue, returned, job_status>>
    /\ UNCHANGED resources
    /\ JobIdle

\* line 489: free(encoded), and the call returns
JobFree ==
    /\ pc = "job_free"
    /\ encoded' = "freed"
    /\ resources' = Release("encoded")
    /\ pc' = "job_ret"
    /\ UNCHANGED <<proc_state, continue_flag, counter, max_ops, now, exit_status, metrics,
                   fail_log>>
    /\ UNCHANGED <<jobs, job_name, job_j, jobs_done, mb_queue, err_log, returned, job_status>>
    /\ JobIdle

NextJobs ==
    \/ JobAlloc
    \/ JobEmpty
    \/ JobSubmit
    \/ JobFlush
    \/ JobsDone
    \/ JobFree

SpecJobs == InitJobs /\ [][NextJobs]_vars

----------------------------------------------------------------------------
\* The option setters of stress-prime.c and stress-ipsec-mb.c

\* lines 45-50 of stress-prime.c: stress_prime_methods[]
stress_prime_methods ==
    << [name |-> "factorial", prime_method |-> STRESS_PRIME_METHOD_FACTORIAL],
       [name |-> "inc",       prime_method |-> STRESS_PRIME_METHOD_INC],
       [name |-> "pwr2",      prime_method |-> STRESS_PRIME_METHOD_PWR2],
       [name |-> "pwr10",     prime_method |-> STRESS_PRIME_METHOD_PWR10] >>

\* the names of a table, in table order
PrimeMethodNames == [k \in DOMAIN stress_prime_methods |-> stress_prime_methods[k].name]
FeatureNames == [k \in DOMAIN mb_features |-> mb_features[k].name]

\* the names an option may be given: those of the tables and two that are in none
OptNames ==
    {PrimeMethodNames[k] : k \in DOMAIN PrimeMethodNames}
        \cup {stress_ipsec_funcs[k] : k \in DOMAIN stress_ipsec_funcs}
        \cup {FeatureNames[k] : k \in DOMAIN FeatureNames}
        \cup {"", "bogus"}

RECURSIVE FindFrom(_, _, _)

\* (mutant) a search that ends at entry 0 when no entry has the name
FindFrom_Default(names, nm, i) ==
    IF i >= Len(names) THEN 0
    ELSE IF names[i + 1] = nm THEN i
         ELSE FindFrom(names, nm, i + 1)

\* the loop of the setters: i runs upwards from 0 until an entry has the name
\* (strcmp is 0) or the table ends; the value of i when the loop is left
FindFrom(names, nm, i) ==
    IF i >= Len(names) THEN i
    ELSE IF names[i + 1] = nm THEN i
         ELSE FindFrom(names, nm, i + 1)

\* stress_set_setting(name, type, value): the value is stored under the name and 0
\* is returned
stress_set_setting(s, key, v) == [ret |-> 0, settings |-> [s EXCEPT ![key] = v]]

\* lines 66-85 of stress-prime.c
stress_set_prime_method(s, nm) ==
    LET i == FindFrom(PrimeMethodNames, nm, 0)
    IN  IF i < Len(stress_prime_methods)
        THEN [ret |-> 0,
              settings |-> stress_set_setting(s, "prime_method",
                               stress_prime_methods[i + 1].prime_method).settings]
        ELSE [ret |-> 0 - 1, settings |-> s]

\* lines 136-152 of stress-ipsec-mb.c
stress_set_ipsec_mb_feature(s, nm) ==
    LET i == FindFrom(FeatureNames, nm, 0)
    IN  IF i < Len(mb_features)
        THEN stress_set_setting(s, "ipsec_mb_feature", i)
        ELSE [ret |-> 0 - 1, settings |-> s]

\* lines 769-785 of stress-ipsec-mb.c
stress_set_ipsec_mb_method(s, nm) ==
    LET i == FindFrom(stress_ipsec_funcs, nm, 0)
    IN  IF i < Len(stress_ipsec_funcs)
        THEN stress_set_setting(s, "ipsec_mb_method", i)
        ELSE [ret |-> 0 - 1, settings |-> s]

\* the option parser before any stressor has started
InitOpts ==
    /\ InitHarness
    /\ pc = "opt_parse"
    /\ max_ops = 0
    /\ IdleDfp
    /\ IdlePrime
    /\ IdleIpsec
    /\ InitAllHist

OptIdle == UNCHANGED <<hvars, dvars, dhist, pvars, phist, ivars, ihist, arrived, jvars,
                      resources>>

\* --prime-method name
SetPrimeMethod ==
    /\ pc = "opt_parse"
    /\ \E nm \in OptNames :
          /\ settings' = stress_set_prime_method(settings, nm).settings
          /\ opt_ret' = stress_set_prime_method(settings, nm).ret
          /\ opt_call' = <<"prime_method", nm>>
    /\ OptIdle

\* --ipsec-mb-feature name
SetIpsecFeature ==
    /\ pc = "opt_parse"
    /\ \E nm \in OptNames :
          /\ settings' = stress_set_ipsec_mb_feature(settings, nm).settings
          /\ opt_ret' = stress_set_ipsec_mb_feature(settings, nm).ret
          /\ opt_call' = <<"ipsec_mb_feature", nm>>
    /\ OptIdle

\* --ipsec-mb-method name
SetIpsecMethod ==
    /\ pc = "opt_parse"
    /\ \E nm \in OptNames :
          /\ settings' = stress_set_ipsec_mb_method(settings, nm).settings
          /\ opt_ret' = stress_set_ipsec_mb_method(settings, nm).ret
          /\ opt_call' = <<"ipsec_mb_method", nm>>
    /\ OptIdle

NextOpts ==
    \/ SetPrimeMethod
    \/ SetIpsecFeature
    \/ SetIpsecMethod

SpecOpts == InitOpts /\ [][NextOpts]_vars

\* the runs of the two stressors that have an "all" entry, with "all" selected
InitAllMethod ==
    \/ InitDfp /\ fp_method = 0
    \/ InitIpsec /\ ipsec_mb_method = 0

NextAllMethod == NextDfp \/ NextIpsec

SpecAllMethod == InitAllMethod /\ [][NextAllMethod]_vars

\* any one of the three stressors
InitAll == InitDfp \/ InitPrime \/ InitIpsec

NextAll == NextDfp \/ NextPrimeRun \/ NextIpsec

SpecAll == InitAll /\ [][NextAll]_vars

\* a run of stress-dfp.c, a run of stress-ipsec-mb.c or one call of a workload:
\* the code that acquires the mapping, the manager and the output buffer
InitRelease == InitDfp \/ InitIpsec \/ InitJobs

\* the runs that end by the op budget, by a verification failure or by a skip.
\* Neither stressor installs a handler of its own: a delivery of the timeout
\* signal clears the continue flag, which ends the loops earlier and adds no
\* path to a return.
NextRelease ==
    \/ DfpMmap
    \/ DfpSyncWait
    \/ DfpSyncRelease
    \/ DfpInitData
    \/ DfpCall
    \/ DfpPass0
    \/ DfpAllLoop
    \/ DfpPassBegin
    \/ DfpPassLoop
    \/ DfpPassEnd
    \/ DfpAcc0
    \/ DfpAcc1
    \/ DfpFlagCheck
    \/ DfpCompare
    \/ DfpReturn
    \/ DfpWhile
    \/ DfpMetrics
    \/ DfpDeinit
    \/ DfpFault
    \/ IpsecVersion
    \/ IpsecAlloc
    \/ IpsecProbe
    \/ IpsecGate
    \/ IpsecPin
    \/ IpsecRun
    \/ IpsecLoop
    \/ IpsecCallFunc
    \/ IpsecAll
    \/ IpsecWork
    \/ IpsecAccumulate
    \/ IpsecWhile
    \/ IpsecMetrics
    \/ IpsecDeinit
    \/ JobAlloc
    \/ JobEmpty
    \/ JobSubmit
    \/ JobFlush
    \/ JobsDone
    \/ JobFree

SpecRelease == InitRelease /\ [][NextRelease]_vars

\* the same runs with deliveries of the timeout signal at any time
NextReleaseAlarm == NextRelease \/ DfpAlarm \/ IpsecAlarm

SpecReleaseAlarm == InitRelease /\ [][NextReleaseAlarm]_vars

\* a sibling worker calls the start barrier, at a time of its own
SiblingArrive ==
    /\ arrived < MaxSiblings
    /\ arrived' = arrived + 1
    /\ UNCHANGED <<hvars, dvars, dhist, pvars, phist, ivars, ihist, ovars, jvars, resources>>

\* a worker of any of the three stressors run together with its siblings
NextWorkers == NextAll \/ SiblingArrive

SpecWorkers == InitAll /\ [][NextWorkers]_vars

\* the runs in which no timeout signal is delivered and no result is corrupted: only
\* the op budget ends the loop
NextBudget ==
    \/ DfpMmap
    \/ DfpSyncWait
    \/ DfpSyncRelease
    \/ DfpInitData
    \/ DfpCall
    \/ DfpPass0
    \/ DfpAllLoop
    \/ DfpPassBegin
    \/ DfpPassLoop
    \/ DfpPassEnd
    \/ DfpAcc0
    \/ DfpAcc1
    \/ DfpFlagCheck
    \/ DfpCompare
    \/ DfpReturn
    \/ DfpWhile
    \/ DfpMetrics
    \/ DfpDeinit
    \/ PrimeInit
    \/ PrimeRun
    \/ PrimeSetjmp
    \/ PrimeSighandler
    \/ PrimeTime
    \/ PrimeNextprimeTick
    \/ PrimeNextprimeDone
    \/ PrimeDuration
    \/ PrimeStep
    \/ PrimeInc
    \/ PrimeDigits
    \/ PrimeWhile
    \/ PrimeFinish
    \/ PrimeOps
    \/ PrimeSummary
    \/ PrimeMetric
    \/ PrimeDeinit
    \/ PrimeReturn
    \/ IpsecVersion
    \/ IpsecAlloc
    \/ IpsecProbe
    \/ IpsecGate
    \/ IpsecPin
    \/ IpsecRun
    \/ IpsecLoop
    \/ IpsecCallFunc
    \/ IpsecAll
    \/ IpsecWork
    \/ IpsecAccumulate
    \/ IpsecWhile
    \/ IpsecMetrics
    \/ IpsecDeinit

SpecBudget == InitAll /\ [][NextBudget]_vars /\ WF_vars(NextBudget)

----------------------------------------------------------------------------
\* Claims about stress-dfp.c

SlotsDiffer(f) == \E i \in Elems : Slot(dfp_data[i][f], 0) # Slot(dfp_data[i][f], 1)

\* C1: once a comparison has found a mismatch no further variant is invoked, the
\* loop of stress_dfp is left, and the stressor returns EXIT_FAILURE, whatever the
\* selected method (the code breaks this for method 0, "all").
C1_MismatchEndsRun ==
    fail_log # <<>> =>
        /\ pc \in {"dfp_cm_ret", "dfp_cm_acc0", "dfp_metrics", "dfp_deinit", "dfp_done"}
        /\ (pc = "dfp_done" => exit_status = "EXIT_FAILURE")

\* C2: with deterministic variants (no injected miscomputation) no mismatch is ever
\* reported and no call fails, for every method and every timing of the signal.
C2_Soundness ==
    faults = 0 => (fail_log = <<>> /\ ret = "EXIT_SUCCESS" /\ rc = "EXIT_SUCCESS")

\* a verified d32 division returned success although the signal made its two
\* slots differ
C2_Witness ==
    /\ pc = "dfp_cm_ret"
    /\ faults = 0
    /\ method > 0
    /\ DfpFunc(method).name = "df32div"
    /\ verify
    /\ SlotsDiffer("d32")
    /\ ret = "EXIT_SUCCESS"

C4_NoCompareAfterStop ==
    ~flag_at_ret1 =>
        /\ pc # "dfp_cm_cmp"
        /\ compared = 0
        /\ Len(fail_log) = fails_at_entry
        /\ (pc = "dfp_cm_ret" => ret = "EXIT_SUCCESS")

\* such a call returned success with its two d32 slots different
C4_Witness ==
    /\ pc = "dfp_cm_ret"
    /\ ~flag_at_ret1
    /\ method > 0
    /\ DfpFunc(method).dfp_type = STRESS_DFP_TYPE_DECIMAL32
    /\ SlotsDiffer("d32")
    /\ compared = 0
    /\ ret = "EXIT_SUCCESS"

----------------------------------------------------------------------------
\* Claims about the "all" entries of stress-dfp.c and stress-ipsec-mb.c

\* the number of entries of the registry of the stressor that runs
AllRegistry == IF pc \in DfpLabels THEN STRESS_NUM_DFP_FUNCS ELSE STRESS_NUM_IPSEC_FUNCS

C6_StopEndsAll ==
    [][(/\ pc \in {"dfp_all_loop", "ip_all"}
        /\ all_log # <<>>
        /\ ~stress_continue
        /\ pc' # pc) => (pc' \in {"dfp_cm_acc0", "ip_cf_acc"} /\ all_log' = all_log)]_vars

----------------------------------------------------------------------------
\* Claims about stress-prime.c

\* C7: the first delivery to the handler clears the flag and makes the count one,
\* leaves the position of the worker and all its data as they are (no jump), and
\* the loop is then left at its next test of the stop condition.
C7_FirstDelivery ==
    [][ /\ (count = 0 /\ count' = 1) =>
              /\ ~continue_flag'
              /\ pc' = pc
              /\ UNCHANGED <<jumped, escapes, proc_state, counter, now, exit_status,
                             metrics, jmpbuf_set, handler_set, prime_method, duration,
                             digits, start, value, factorial, t, ops, mpz_state,
                             summaries>>
        /\ (pc = "prime_while" /\ count >= 1 /\ pc' # pc) => pc' = "prime_finish"
      ]_vars

\* one delivery came during mpz_nextprime and the loop was left without a jump
C7_Witness ==
    /\ count = 1
    /\ first_at # <<>>
    /\ first_at[1] = "prime_nextprime"
    /\ ~jumped
    /\ escapes = 0
    /\ ~continue_flag
    /\ pc = "prime_finish"

\* C8: a delivery to the handler after exactly one earlier delivery jumps to the
\* point saved before the loop: jumped is set, the worker is at the finish section,
\* and the loop is never entered again.
C8_SecondDelivery ==
    [][ /\ (count = 1 /\ count' = 2) =>
              /\ jmpbuf_set
              /\ jumped'
              /\ escapes' = escapes + 1
              /\ pc' = "prime_finish"
        /\ jumped => pc' \notin (PrimeLoopLabels \cup {"prime_while"})
      ]_vars

\* the second delivery came during mpz_nextprime and the finish section goes on
C8_Witness ==
    /\ count = 2
    /\ jumped
    /\ escaped_at # <<>>
    /\ escaped_at[1] = "prime_nextprime"
    /\ pc = "prime_ops"

\* C9: the jump is performed at most once in a run, and only by a delivery that
\* interrupts the same mpz_nextprime call as the first delivery (the code jumps on
\* every delivery after the first, wherever the worker is).
C9_OneShot ==
    /\ escapes <= 1
    /\ escapes = 1 => (escaped_at = first_at /\ escaped_at[1] = "prime_nextprime")

\* C10: after a jump out of mpz_nextprime the duration and the op counter, and the
\* rate emitted from them, are those of the calls that returned before it.
C10_EscapeExcluded ==
    (escapes >= 1 /\ escaped_at[1] = "prime_nextprime") =>
        /\ duration = dur_completed
        /\ counter = calls_completed
        /\ pc \in {"prime_summary", "prime_metric"} => ops = calls_completed
        /\ \A i \in 1 .. Len(metrics) :
              /\ metrics[i].ops = (IF dur_completed > 0 THEN calls_completed ELSE 0)
              /\ metrics[i].duration = (IF dur_completed > 0 THEN dur_completed ELSE 1)

\* the run jumped out of its second call, in which time had passed, and has
\* emitted its rate
C10_Witness ==
    /\ escapes = 1
    /\ escaped_at = <<"prime_nextprime", 1>>
    /\ now > dur_completed
    /\ dur_completed > 0
    /\ Len(metrics) = 1
    /\ metrics[1].ops = 1

\* C11: once the run has jumped, no step clears the big numbers; the run still
\* emits its metric, sets the DEINIT state and returns EXIT_SUCCESS.
C11_EscapeSkipsCleanup ==
    [][/\ (escapes >= 1) => (mpz_state' = mpz_state)
       /\ (escapes' >= 1 /\ pc' = "prime_done") =>
              /\ exit_status' = "EXIT_SUCCESS"
              /\ proc_state' = "DEINIT"
              /\ metrics' # <<>>]_vars

\* the run jumped out of mpz_nextprime and has returned, the big numbers never cleared
C11_Witness ==
    /\ pc = "prime_done"
    /\ escapes >= 1
    /\ escaped_at[1] = "prime_nextprime"
    /\ mpz_state = "live"
    /\ exit_status = "EXIT_SUCCESS"

----------------------------------------------------------------------------
\* Claims about the accumulated statistics

\* C12: a call that returned a negative duration changes neither the duration nor
\* the ops of its registry entry (the code adds the -1.0 of a failed "all" to entry 0
\* and counts its ops).
C12_AbortedNotCounted ==
    [][(pc \in {"dfp_cm_acc0", "dfp_cm_acc1"} /\ dt < 0) => funcs' = funcs]_vars

\* C13: no step lowers the duration or the ops of a registry entry or of a feature
\* entry, and the rates are emitted only from the statements after the loop (the
\* code lowers the duration of entry 0 by the -1.0 of a failed "all").
C13_StatsMonotone ==
    [][/\ \A m \in Methods : /\ funcs'[m].duration >= funcs[m].duration
                             /\ funcs'[m].ops >= funcs[m].ops
       /\ \A i \in DOMAIN istats : /\ istats'[i].duration >= istats[i].duration
                                   /\ istats'[i].ops >= istats[i].ops
       /\ (metrics' # metrics) => pc \in {"dfp_metrics", "ip_metrics"}]_vars

----------------------------------------------------------------------------
\* Claims about the feature gating of stress-ipsec-mb.c

\* C14: after the probe an entry of mb_features[] is marked supported exactly when
\* every bit it requires is in the probed word, and an entry with a missing bit is
\* never set up and never runs a workload.
C14_SupportedIffMask ==
    /\ pc \in {"ip_gate", "ip_pin"} =>
           \A i \in FeatureIdx : supported[i] <=> (MbFeature(i).features \subseteq features)
    /\ \A i \in FeatureIdx :
           ~(MbFeature(i).features \subseteq features) =>
               (i \notin inited /\ i \notin ran /\ (pc # "ip_probe" => ~supported[i]))

\* a run on a host with SSE4.2 and AES-NI but no AVX has ended: the two SSE entries
\* ran, the three AVX entries did not
C14_Witness ==
    /\ pc = "ip_done"
    /\ exit_status = "EXIT_SUCCESS"
    /\ features = {"SSE4_2", "CMOV", "AESNI"}
    /\ ran = {3, 4}
    /\ inited = {3, 4}

\* C15: the RUN state is entered only when some entry is supported by the probed
\* word and, when a feature is requested, that entry is; in the other cases the run
\* ends with EXIT_NOT_IMPLEMENTED, no entry set up and no workload run.
C15_RunOnlyIfEligible ==
    LET Has(i) == MbFeature(i).features \subseteq features
        Eligible == /\ \E i \in FeatureIdx : Has(i)
                    /\ ipsec_mb_feature >= 0 => Has(ipsec_mb_feature)
    IN  /\ proc_state # "INIT" => Eligible
        /\ (pc = "ip_done" /\ mb_mgr = "FREED" /\ ~Eligible) =>
               /\ exit_status = "EXIT_NOT_IMPLEMENTED"
               /\ proc_state = "INIT"
               /\ inited = {} /\ ran = {} /\ counter = 0

\* a run that requested avx512 on a host without it has been skipped
C15_Witness ==
    /\ pc = "ip_done"
    /\ mb_mgr = "FREED"
    /\ ipsec_mb_feature = 2
    /\ features = {"SSE4_2", "CMOV", "AESNI", "AVX", "AVX2"}
    /\ exit_status = "EXIT_NOT_IMPLEMENTED"

\* C16: when a supported feature is requested, its entry is the only one that is
\* set up, the only one under which a workload runs and the only one whose stats
\* change, whatever else the probe supports.
C16_PinnedOnly ==
    (ipsec_mb_feature >= 0 /\ proc_state # "INIT") =>
        /\ inited \subseteq {ipsec_mb_feature}
        /\ ran \subseteq {ipsec_mb_feature}
        /\ \A i \in FeatureIdx \ {ipsec_mb_feature} : istats[i] = [ops |-> 0, duration |-> 0]

\* a run that requested sse on a host that supports all five entries has ended
C16_Witness ==
    /\ pc = "ip_done"
    /\ ipsec_mb_feature = 4
    /\ features = {"SSE4_2", "CMOV", "AESNI", "AVX", "AVX2", "AVX512_SKX"}
    /\ ran = {4}
    /\ istats[4].ops > 0

\* C17: with no feature requested, a pass of the loop calls the selected function
\* once under each supported entry, and the ops of the workloads are in the stats
\* of the entry they ran under, an entry under which none ran having none (the code
\* calls the selected function once per pair of supported entries).
C17_OncePerDescriptor ==
    (ipsec_mb_feature < 0 /\ pc = "ip_while") =>
        /\ \A i \in FeatureIdx : pass_runs[i] = (IF supported[i] THEN 1 ELSE 0)
        /\ \A i \in FeatureIdx : /\ istats[i].ops >= ops_under[i]
                                  /\ ops_under[i] = 0 => istats[i].ops = 0

----------------------------------------------------------------------------
\* Claims about the op budget

\* the most ops one pass of the loop of the running stressor adds to the counter
FullPassOps ==
    IF pc \in DfpLabels
    THEN (IF fp_method = 0 THEN STRESS_NUM_DFP_FUNCS - 1 ELSE 1) * (IF verify THEN 2 ELSE 1)
    ELSE IF pc \in PrimeLabels
    THEN 1
    ELSE LET k == Cardinality({i \in FeatureIdx : supported[i]})
         IN  (IF ipsec_mb_method = 0 THEN (STRESS_NUM_IPSEC_FUNCS - 1) * k ELSE 1)
             * k * k * ipsec_mb_jobs

----------------------------------------------------------------------------
\* The end-to-end scenario of stress-dfp.c

\* the scenario: method "all", verification off, no timeout, and an op budget that
\* one cycle of "all" (N - 1 calls of one bogo op each) does not reach and a second
\* cycle passes at its first call
InScenario ==
    /\ fp_method = 0
    /\ ~verify
    /\ continue_flag
    /\ max_ops = STRESS_NUM_DFP_FUNCS
    /\ rc = "EXIT_SUCCESS"

\* C19: in the scenario the run makes one complete "all" cycle, then a partial one
\* that stops once the budget is reached (so fewer ops than two complete cycles are
\* counted), and the rate reported for the first add variant is its ops_total over
\* its duration_total, the ops of one call over the time of one call.
C19_Scenario ==
    /\ (pc \in {"dfp_metrics", "dfp_deinit"} /\ InScenario) =>
           /\ counter >= max_ops
           /\ counter < 2 * (STRESS_NUM_DFP_FUNCS - 1)
    /\ (pc = "dfp_deinit" /\ InScenario) =>
           \E k \in DOMAIN metrics :
               /\ metrics[k].name = DfpFunc(1).name
               /\ metrics[k].ops = funcs[1].ops
               /\ metrics[k].duration = funcs[1].duration
               /\ metrics[k].ops * Loops = metrics[k].duration * OpsPerCall

----------------------------------------------------------------------------
\* Claims about the verify step of stress_dfp_call_method

\* C20: every call of the dispatcher first runs the production pass with slot 0;
\* when that pass has returned the dispatcher starts the second pass, with slot 1,
\* if and only if verification is enabled and the entry is not the "all"
\* aggregator (index 0); with verification disabled no step of the dispatcher
\* changes slot 1 of any element.
C20_VerifyStep ==
    [][/\ (pc = "dfp_cm_pass0" /\ pc' # pc) =>
              IF method = 0
              THEN pc' = "dfp_all_loop"
              ELSE pc' = "dfp_pass_begin" /\ idx' = 0
       /\ (pc = "dfp_cm_acc0" /\ pc' # pc) =>
              ((pc' = "dfp_pass_begin" /\ idx' = 1) <=> (verify /\ method # 0))
       /\ (pc' = "dfp_pass_begin" /\ pc # pc') => pc \in {"dfp_cm_pass0", "dfp_cm_acc0"}
       /\ (~verify /\ pc # "dfp_init") =>
              \A i \in Elems : \A f \in Fields :
                  Slot(dfp_data'[i][f], 1) = Slot(dfp_data[i][f], 1)]_vars

\* a verified call of a variant has started its second pass and written slot 1
C20_Witness ==
    /\ pc = "dfp_pass_loop"
    /\ verify
    /\ method # 0
    /\ idx = 1
    /\ loop_i > 0

----------------------------------------------------------------------------
\* Claims about the comparison of stress_dfp_call_method

\* the elements whose two d32 slots differ
Mismatching == {i \in Elems : Slot(dfp_data[i]["d32"], 0) # Slot(dfp_data[i]["d32"], 1)}

\* the least element of a non-empty set of indices
Lowest(S) == CHOOSE i \in S : \A j \in S : i <= j

\* C21: a call whose comparison has run returns success exactly when the two slots
\* are equal in every element, and then reports nothing; otherwise it returns
\* failure having emitted exactly one report, for the lowest mismatching element,
\* and having compared no element after that one.
C21_CompareContract ==
    (pc = "dfp_cm_ret" /\ method > 0 /\ compared > 0) =>
        /\ (ret = "EXIT_SUCCESS") <=> (Mismatching = {})
        /\ (Mismatching = {}) => (Len(fail_log) = fails_at_entry /\ compared = DFP_ELEMENTS)
        /\ (Mismatching # {}) =>
               /\ Len(fail_log) = fails_at_entry + 1
               /\ fail_log[Len(fail_log)].element = Lowest(Mismatching)
               /\ fail_log[Len(fail_log)].got = Slot(dfp_data[Lowest(Mismatching)]["d32"], 0)
               /\ fail_log[Len(fail_log)].expected = Slot(dfp_data[Lowest(Mismatching)]["d32"], 1)
               /\ compared = Lowest(Mismatching) + 1

\* a call failed with every element mismatching: element 0 alone was reported
C21_Witness ==
    /\ pc = "dfp_cm_ret"
    /\ method > 0
    /\ compared = 1
    /\ Mismatching = Elems
    /\ ret = "EXIT_FAILURE"
    /\ Len(fail_log) = fails_at_entry + 1
    /\ fail_log[Len(fail_log)].element = 0

----------------------------------------------------------------------------
\* Claims about the life cycle of a worker

\* the order of the process states
StateRank(s) ==
    CASE s = "INIT" -> 0
      [] s = "SYNC_WAIT" -> 1
      [] s = "RUN" -> 2
      [] s = "DEINIT" -> 3

\* the positions of stress_dfp at which the element array is not yet filled in
DfpUninitialised == {"dfp_mmap", "dfp_sync", "dfp_wait", "dfp_init"}

\* C22: the process state only ever moves to the next one of Init, SyncWait,
\* Running, Deinit; when SyncWait is entered the buffers are initialised; and a
\* worker that has entered Running returns only in Deinit.
C22_Lifecycle ==
    [][/\ (proc_state' # proc_state) => (StateRank(proc_state') = StateRank(proc_state) + 1)
       /\ (proc_state' = "SYNC_WAIT") => (pc' \notin DfpUninitialised)
       /\ (exit_status' # "NONE" /\ StateRank(proc_state) >= 2) => (proc_state' = "DEINIT")]_vars

----------------------------------------------------------------------------
\* Claims about the start barrier

\* the positions inside a workload invocation: a variant of stress-dfp.c, the
\* mpz_nextprime call of stress-prime.c, a workload function of stress-ipsec-mb.c
InWorkload == {"dfp_cm_pass0", "dfp_all_loop", "dfp_pass_begin", "dfp_pass_loop",
               "dfp_pass_end", "prime_nextprime", "ip_work"}

\* C23: a worker is inside a workload invocation only when every sibling worker
\* has arrived at the start barrier.
C23_BarrierBeforeWork ==
    (pc \in InWorkload) => (arrived = MaxSiblings)

----------------------------------------------------------------------------
\* Claims about failed allocations

\* C24: a failed allocation ends the run at once with the no-resource status: the
\* failed mapping of stress_dfp and the failed manager allocation of
\* stress_ipsec_mb return EXIT_NO_RESOURCE in the same step, and once an
\* output-buffer allocation of a workload has failed no workload is invoked again
\* and the run returns EXIT_NO_RESOURCE.
C24_AllocFailureAborts ==
    [][/\ (pc = "dfp_mmap" /\ pc' # pc /\ ~mapped') =>
              (pc' = "dfp_done" /\ exit_status' = "EXIT_NO_RESOURCE")
       /\ (pc = "ip_alloc" /\ pc' # pc /\ mb_mgr' # "ALLOCATED") =>
              (pc' = "ip_done" /\ exit_status' = "EXIT_NO_RESOURCE")
       /\ (alloc_fails > 0 /\ pc # "ip_work") => (pc' # "ip_work")
       /\ (alloc_fails > 0 /\ exit_status' # "NONE") =>
              (exit_status' = "EXIT_NO_RESOURCE")]_vars

----------------------------------------------------------------------------
\* Claims about the metrics

\* the entries a step adds to the metrics
Emitted == SubSeq(metrics', Len(metrics) + 1, Len(metrics'))

\* the measured time of the entry a metric is emitted for
TimedFor(e) ==
    IF pc \in DfpLabels THEN funcs[e.index + 1].duration
    ELSE IF pc \in PrimeLabels THEN duration
    ELSE LET S == {i \in FeatureIdx : MbFeature(i).name = e.name}
         IN  istats[CHOOSE i \in S : TRUE].duration

\* C25: every metric emitted is the rate of an entry whose measured time is
\* greater than zero, so that no rate divides by zero and no entry that was never
\* timed gets a metric.
C25_RatesOnlyIfTimed ==
    [][\A k \in DOMAIN Emitted :
           /\ Emitted[k].duration > 0
           /\ TimedFor(Emitted[k]) > 0]_vars

\* the product of a sequence of rates
RECURSIVE RateProduct(_)
RateProduct(rs) == IF rs = <<>> THEN 1 ELSE Head(rs) * RateProduct(Tail(rs))

\* the sum of the reciprocals of the rates, as a multiple of 1 / p
RECURSIVE ReciprocalSum(_, _)
ReciprocalSum(rs, p) == IF rs = <<>> THEN 0 ELSE (p \div Head(rs)) + ReciprocalSum(Tail(rs), p)

\* the harmonic mean n / sum(1 / rate_i) of the window rates, as the fraction
\* num / den (the aggregation done by the metrics collaborator of the harness)
HarmonicMean(rs) ==
    [num |-> Len(rs) * RateProduct(rs), den |-> ReciprocalSum(rs, RateProduct(rs))]

\* C26: the harmonic mean of the window rates 10, 20, 20 is exactly 15, and every
\* rate metric emitted by a stressor is tagged for harmonic-mean aggregation.
C26_HarmonicMean ==
    /\ HarmonicMean(<<10, 20, 20>>).num = 15 * HarmonicMean(<<10, 20, 20>>).den
    /\ \A k \in DOMAIN metrics : metrics[k].kind = "HARMONIC_MEAN"

----------------------------------------------------------------------------
\* Claims about the frame of a variant function

\* the step of a variant invoked with slot idx resets (at its start) slot idx of
\* every element of its field to r_init and changes nothing but slot idx of the
\* elements of its field
VariantFrame ==
    (pc \in {"dfp_pass_begin", "dfp_pass_loop"}) =>
        /\ \A i \in Elems : \A f \in Fields :
               /\ dfp_data'[i][f].r_init = dfp_data[i][f].r_init
               /\ dfp_data'[i][f].add = dfp_data[i][f].add
               /\ dfp_data'[i][f].add_rev = dfp_data[i][f].add_rev
               /\ dfp_data'[i][f].mul = dfp_data[i][f].mul
               /\ dfp_data'[i][f].mul_rev = dfp_data[i][f].mul_rev
               /\ Slot(dfp_data'[i][f], 1 - idx) = Slot(dfp_data[i][f], 1 - idx)
               /\ (f # DfpFunc(method).field) => (dfp_data'[i][f] = dfp_data[i][f])
        /\ (pc = "dfp_pass_begin" /\ pc' # pc) =>
               \A i \in Elems :
                   Slot(dfp_data'[i][DfpFunc(method).field], idx) =
                       dfp_data[i][DfpFunc(method).field].r_init

\* the two invocations of a verified call have returned and left the same values
SameResults ==
    \A i \in Elems : Slot(dfp_data[i][DfpFunc(method).field], 0) =
                     Slot(dfp_data[i][DfpFunc(method).field], 1)

\* C27 as claimed: a variant keeps to its frame, and the two invocations of a
\* verified call, which have the same inputs, leave the same values in their slots.
C27_FrameAndSameValue ==
    /\ [][VariantFrame]_vars
    /\ []((pc = "dfp_cm_acc1" /\ flips = <<>>) => SameResults)

\* C27 as amended: a variant keeps to its frame, and the two invocations of a
\* verified call leave the same values in their slots when neither was cut short
\* (the flag was still set when the second returned, or the variant is not a
\* division, the only loop that polls the flag).
C27_FrameAndSameValueUncut ==
    /\ [][VariantFrame]_vars
    /\ []((/\ pc = "dfp_cm_acc1"
           /\ flips = <<>>
           /\ (flag_at_ret1 \/ DfpFunc(method).op # "div")) => SameResults)

\* both invocations of a verified d32 division ran all their iterations and left
\* equal results that are not all the initial values
C27_Witness ==
    /\ pc = "dfp_cm_acc1"
    /\ flips = <<>>
    /\ flag_at_ret1
    /\ DfpFunc(method).name = "df32div"
    /\ loop_i = Loops
    /\ SameResults
    /\ \E i \in Elems : Slot(dfp_data[i]["d32"], 1) # dfp_data[i]["d32"].r_init

----------------------------------------------------------------------------
\* Claims about the option setters

\* the table a setter searches
OptTable(setter) ==
    CASE setter = "prime_method" -> PrimeMethodNames
      [] setter = "ipsec_mb_method" -> stress_ipsec_funcs
      [] setter = "ipsec_mb_feature" -> FeatureNames

\* the indices (from 0) of the entries of a table that have the name
IndicesOf(names, nm) == {k \in 0 .. (Len(names) - 1) : names[k + 1] = nm}

\* C28: a call of a setter with a name of its table returns 0 and stores the index
\* of the entry with that name, whatever was stored before (so a repeated call
\* stores the same index), and leaves the other selections alone; a call with a
\* name that is not in its table returns -1 and leaves every selection unchanged.
C28_LookupByName ==
    [][(opt_call' # <<>>) =>
          LET setter == opt_call'[1]
              nm == opt_call'[2]
              found == IndicesOf(OptTable(setter), nm)
          IN  IF found # {}
              THEN /\ opt_ret' = 0
                   /\ settings'[setter] \in found
                   /\ Cardinality(found) = 1
                   /\ \A k \in DOMAIN settings : k # setter => settings'[k] = settings[k]
              ELSE /\ opt_ret' = 0 - 1
                   /\ settings' = settings]_vars

\* the three setters have each stored the last entry of their table, the method
\* setter of stress-ipsec-mb.c last
C28_Witness ==
    /\ opt_call = <<"ipsec_mb_method", "sha">>
    /\ opt_ret = 0
    /\ settings.ipsec_mb_method = STRESS_NUM_IPSEC_FUNCS - 1
    /\ settings.prime_method = STRESS_PRIME_METHOD_PWR10
    /\ settings.ipsec_mb_feature = 4

\* the handler has run twice, both times inside one call of mpz_nextprime: the
\* first delivery found the worker there and no call has returned since
TwiceInOneCall ==
    /\ handler_set
    /\ count >= 2
    /\ first_at = <<"prime_nextprime", calls_completed>>

\* C29: two deliveries of the timeout signal during a computation that never polls
\* the continue flag do not leave the worker hanging: the second takes it to the
\* finish section, and from there it emits its metric and enters Deinit, whether
\* or not the computation would ever have returned.
C29_NoHang ==
    /\ [][(pc = "prime_nextprime" /\ count = 1 /\ count' = 2) =>
              (pc' = "prime_finish" /\ jumped')]_vars
    /\ (TwiceInOneCall ~> (jumped /\ metrics # <<>> /\ proc_state = "DEINIT"))

\* the worker escaped from the call in which both deliveries came, and has
\* emitted its one metric and entered Deinit
C29_Witness ==
    /\ TwiceInOneCall
    /\ count = 2
    /\ escaped_at = <<"prime_nextprime", calls_completed>>
    /\ Len(metrics) = 1
    /\ proc_state = "DEINIT"
    /\ pc = "prime_done"

----------------------------------------------------------------------------
\* Claims about the variants the comparison has no case for

\* a verified call of a variant whose element type is not _Decimal32
ExemptCall ==
    /\ method > 0
    /\ verify
    /\ DfpFunc(method).dfp_type # STRESS_DFP_TYPE_DECIMAL32

----------------------------------------------------------------------------
\* Claims about the finish section of stress_prime

\* C31: whatever the number and the timing of the deliveries of the timeout
\* signal, a run prints its summary once and emits its rate metric once: never
\* more than once, and exactly once when stress_prime has returned success.
C31_FinishOnce ==
    /\ Len(summaries) <= 1
    /\ Len(metrics) <= 1
    /\ (pc = "prime_done" /\ exit_status = "EXIT_SUCCESS") =>
           (Len(summaries) = 1 /\ Len(metrics) = 1)

----------------------------------------------------------------------------
\* Claims about the accounting of stress-ipsec-mb.c

\* the ops of the entries 0 .. n - 1 of mb_features[], added up
RECURSIVE OpsCharged(_)
OpsCharged(n) == IF n = 0 THEN 0 ELSE istats[n - 1].ops + OpsCharged(n - 1)

\* C32: every increment of the op counter is charged to exactly one entry of
\* mb_features[]: once the loop of stress_ipsec_mb has ended, the ops of the
\* entries add up to what the counter has grown by since the start of the run,
\* whatever the method and the supported entries.
C32_ChargedOnce ==
    (pc \in {"ip_metrics", "ip_deinit"} /\ proc_state = "RUN") =>
        OpsCharged(NumFeatures) = counter

----------------------------------------------------------------------------
\* Claims about the jobs of a workload call

\* the jobs that came back completed
Completed == {k \in JobIds : job_status[k] = "STS_COMPLETED"}

\* the message of stress_jobs_done is in the log
ShortfallReported == \E n \in DOMAIN err_log : err_log[n][2] = "only processed"

\* C33: when a workload call asked to run N jobs returns, every job it submitted
\* has been handed back exactly once, the op counter has grown by one for each
\* job handed back completed and by nothing else, an error has been reported if
\* the number of completed jobs is not N, and the queue is empty.
C33_JobAccounting ==
    (pc = "job_ret") =>
        /\ \A k \in JobIds : returned[k] = (IF k < job_j THEN 1 ELSE 0)
        /\ counter = Cardinality(Completed)
        /\ (Cardinality(Completed) # jobs) => ShortfallReported
        /\ mb_queue = <<>>

----------------------------------------------------------------------------
\* Claims about the resources of a run

\* the stressor or the workload call has returned
HasReturned == pc \in {"dfp_done", "ip_done", "job_ret"}

\* C34: the manager of the crypto library, the mapping of the dfp data and the
\* output buffer of a workload call are each acquired at most once, never released
\* more often than acquired, and released exactly once on whatever path the code
\* returns by after the acquisition: the exits of stress_ipsec_mb with no
\* supported entry, with the requested entry unsupported and after the loop, the
\* exits of stress_dfp with success and with a verification failure, and the
\* return of a workload.
C34_ReleasedOnce ==
    /\ \A x \in ResourceNames :
           /\ resources[x].acquired <= 1
           /\ resources[x].released <= resources[x].acquired
           /\ HasReturned => resources[x].released = resources[x].acquired
    /\ (mb_mgr = "ALLOCATED") <=> (resources["mb_mgr"].released < resources["mb_mgr"].acquired)
    /\ (pc \in DfpLabels /\ mapped) <=>
           (resources["dfp_data"].released < resources["dfp_data"].acquired)
    /\ (encoded = "live") <=> (resources["encoded"].released < resources["encoded"].acquired)

\* stress_dfp has returned a verification failure, its mapping released
C34_Witness ==
    /\ pc = "dfp_done"
    /\ exit_status = "EXIT_FAILURE"
    /\ fail_log # <<>>
    /\ resources["dfp_data"] = [acquired |-> 1, released |-> 1]

============================================================================
